---------------------------- MODULE Spec2Model ----------------------------
(***************************************************************************)
(* A model of the CASPER TAPCP server core (casper_tapcp.c): the openers   *)
(* that resolve a TFTP file name into a transfer state, and the read and   *)
(* write callbacks (codecs) the TFTP engine then calls chunk by chunk.     *)
(*                                                                         *)
(* Bytes and characters are the integers 0..255 (ASCII).  A uint32_t is a  *)
(* tuple <<b3, b2, b1, b0>> of its four bytes, most significant first,     *)
(* with arithmetic modulo 2^32; an int (state->nleft, state->lidx) is an   *)
(* integer.  Addresses are uint32_t values of one flat address space that  *)
(* holds the FPGA window, the help message, the core_info blob and the     *)
(* rest of the CPU memory.                                                 *)
(***************************************************************************)
EXTENDS Integers, Sequences, FiniteSets, TLC

\* ------------------------------------------------------------------------
\* Characters and byte strings
\* ------------------------------------------------------------------------

\* The printable ASCII characters 32 (space) to 95 (_) and 97 (a) to 126 (~),
\* in code order (a string literal cannot hold the character 96).
PrintableLo == " !\"#$%&'()*+,-./0123456789:;<=>?@ABCDEFGHIJKLMNOPQRSTUVWXYZ[\\]^_"
PrintableHi == "abcdefghijklmnopqrstuvwxyz{|}~"

\* The ASCII code of a one-character string.
Ord(ch) ==
  IF ch = "\n" THEN 10
  ELSE IF ch = "\t" THEN 9
  ELSE IF \E i \in 1..Len(PrintableLo) : SubSeq(PrintableLo, i, i) = ch
       THEN 31 + (CHOOSE i \in 1..Len(PrintableLo) : SubSeq(PrintableLo, i, i) = ch)
       ELSE 96 + (CHOOSE i \in 1..Len(PrintableHi) : SubSeq(PrintableHi, i, i) = ch)

\* A string literal as the sequence of its bytes.
Bytes(s) == [i \in 1..Len(s) |-> Ord(SubSeq(s, i, i))]

LF == 10
TAB == 9
NUL == 0
COLON == 58
SPACE == 32
DOT == 46

\* <ctype.h>, "C" locale.
isdigit(c) == c >= 48 /\ c <= 57
isxdigit(c) == isdigit(c) \/ (c >= 65 /\ c <= 70) \/ (c >= 97 /\ c <= 102)
isspace(c) == c = 32 \/ (c >= 9 /\ c <= 13)

\* s[i] of a C string or array held as a function; a C string reads NUL at
\* its end.
At(s, i) == IF i \in DOMAIN s THEN s[i] ELSE NUL

\* ------------------------------------------------------------------------
\* uint32_t arithmetic on <<b3, b2, b1, b0>>
\* ------------------------------------------------------------------------

Byte == 0..255
Hi16(w) == w[1] * 256 + w[2]
Lo16(w) == w[3] * 256 + w[4]
MkU32(hi, lo) == << hi \div 256, hi % 256, lo \div 256, lo % 256 >>
\* A small natural number (below 2^16) as a uint32_t.
U32(n) == MkU32(0, n)
U32Zero == <<0, 0, 0, 0>>

U32Add(a, b) ==
  LET lo == Lo16(a) + Lo16(b)
      hi == Hi16(a) + Hi16(b) + (lo \div 65536)
  IN  MkU32(hi % 65536, lo % 65536)

U32Sub(a, b) ==
  LET lo == Lo16(a) - Lo16(b)
      borrow == IF lo < 0 THEN 1 ELSE 0
      hi == Hi16(a) - Hi16(b) - borrow
  IN  MkU32((hi + 65536) % 65536, (lo + 65536) % 65536)

\* a > b and a < b, unsigned.
U32Gt(a, b) == Hi16(a) > Hi16(b) \/ (Hi16(a) = Hi16(b) /\ Lo16(a) > Lo16(b))
U32Lt(a, b) == U32Gt(b, a)

\* w << 2, w >> 2, w << 4, w << 8.
U32Shl2(w) ==
  LET lo == Lo16(w) * 4
      hi == Hi16(w) * 4 + (lo \div 65536)
  IN  MkU32(hi % 65536, lo % 65536)
U32Shr2(w) ==
  MkU32(Hi16(w) \div 4, ((Hi16(w) % 4) * 65536 + Lo16(w)) \div 4)
U32Shl4(w) ==
  LET lo == Lo16(w) * 16
      hi == Hi16(w) * 16 + (lo \div 65536)
  IN  MkU32(hi % 65536, lo % 65536)
U32Shl8(w) == << w[2], w[3], w[4], 0 >>

\* w with its two low bits kept: an alignment that is left out.
U32NotAligned(w) == w

\* w & ~3, w & 3, w | b for b below 256 when the low byte of w has no bit of b
\* set is plain addition; the general byte OR is BitOr8.
U32AndNot3(w) == << w[1], w[2], w[3], w[4] - (w[4] % 4) >>
\* w & 1: the test of a counter that fills a word every second byte.
U32And1(w) == w[4] % 2
U32And3(w) == w[4] % 4

RECURSIVE BitOr8(_, _)
BitOr8(a, b) ==
  IF a = 0 THEN b
  ELSE IF b = 0 THEN a
  ELSE (IF a % 2 = 1 \/ b % 2 = 1 THEN 1 ELSE 0) + 2 * BitOr8(a \div 2, b \div 2)

U32OrByte(w, b) == << w[1], w[2], w[3], BitOr8(w[4], b) >>

\* The conversion to int of a count of words taken as a count of bytes.
ToIntWords(w) ==
  LET v == U32Shl2(w)
  IN  IF v[1] < 128 THEN (Hi16(v) * 65536) + Lo16(v)
      ELSE ((Hi16(v) - 65536) * 65536) + Lo16(v)

\* The conversion uint32_t -> int (two's complement).
ToInt(w) ==
  IF w[1] < 128 THEN (Hi16(w) * 65536) + Lo16(w)
  ELSE ((Hi16(w) - 65536) * 65536) + Lo16(w)

\* The conversion int -> uint32_t.
OfInt(n) ==
  IF n >= 0 THEN MkU32(n \div 65536, n % 65536)
  ELSE LET m == -(n + 1)   \* n = -(m + 1) = ~m
       IN  MkU32(65535 - (m \div 65536), 65535 - (m % 65536))

\* ------------------------------------------------------------------------
\* Hex codec
\* ------------------------------------------------------------------------

\* The value of the hex digit c: c - '0', or (c | 0x20) - 'a' + 10.
HexVal(c) == IF isdigit(c) THEN c - 48 ELSE BitOr8(c, 32) - 97 + 10

\* The loop of hex_to_u32: up to 8 hex digits of s from index p.
RECURSIVE hex_to_u32_loop(_, _, _, _)
hex_to_u32_loop(s, p, u32, i) ==
  IF i = 8 \/ ~isxdigit(At(s, p)) THEN << p, u32 >>
  ELSE hex_to_u32_loop(s, p + 1, U32OrByte(U32Shl4(u32), HexVal(At(s, p))), i + 1)

\* hex_to_u32(p, &u32) on the characters s: << the returned p, the new *u32 >>.
\* Nothing is parsed, and *u32 is left alone, when *p is NUL.
hex_to_u32(s, p, u32) ==
  IF At(s, p) # NUL THEN hex_to_u32_loop(s, p, U32Zero, 0) ELSE << p, u32 >>

\* One uppercase hex digit.
HexDigit(c) == IF c > 9 THEN c - 10 + 65 ELSE c + 48

\* u8_to_hex(u8, p, do_zeros): the characters it appends at p.
u8_to_hex(u8, do_zeros) ==
  LET c1 == (u8 \div 16) % 16
      first == c1 # 0 \/ (do_zeros \div 16) # 0
      dz == IF first THEN BitOr8(do_zeros, c1) ELSE do_zeros
      c2 == u8 % 16
      second == c2 # 0 \/ (dz % 16) # 0
  IN  (IF first THEN << HexDigit(c1) >> ELSE << >>)
      \o (IF second THEN << HexDigit(c2) >> ELSE << >>)

\* The loop of u32_to_hex, i = 1..4 for the source's i = 0..3.
RECURSIVE u32_to_hex_loop(_, _, _)
u32_to_hex_loop(u32, do_zeros, i) ==
  IF i > 4 THEN << >>
  ELSE LET c == u32[i]
       IN  u8_to_hex(c, IF do_zeros # 0 THEN 17 ELSE (IF i = 4 THEN 1 ELSE 0))
           \o u32_to_hex_loop(u32, BitOr8(do_zeros, c), i + 1)

\* u32_to_hex(u32, p, do_zeros): the characters it appends at p.
u32_to_hex_minimal(u32, do_zeros) == u32_to_hex_loop(u32, 0, 1)
u32_to_hex_padded(u32, do_zeros) == u32_to_hex_loop(u32, 1, 1)
u32_to_hex(u32, do_zeros) == u32_to_hex_loop(u32, do_zeros, 1)

\* ------------------------------------------------------------------------
\* The platform: address space, help message, device catalog
\* ------------------------------------------------------------------------

\* The number of 32-bit words of the FPGA window the model gives the platform.
FpgaWords == 8

\* FPGA_BASEADDR, FPGA_NBYTES (xparameters.h gives the platform's values).
FPGA_BASEADDR == << 64, 0, 0, 0 >>
FPGA_NBYTES == U32(4 * FpgaWords)

\* The null pointer.
NULL == U32Zero

\* sizeof(line_buf) = 256+2+9+9+3.
LineBufSize == 279

\* The size of a whole block, as the TFTP engine asks the read callback for
\* (512 bytes in TFTP): more than any output of the model.
TFTP_BLOCK == 512

\* The help message and the address the linker gives it.
tapcp_help_msg ==
  Bytes("Available TAPCP commands:\n"
        \o "  /help    - this message\n"
        \o "  /listdev - list FPGA device info\n"
        \o "  /temp    - get FPGA temperature\n"
        \o "  [/dev/]DEVNAME[.OFFSET[.LENGTH]] - access DEVNAME\n"
        \o "  /fpga.OFFSET[.LENGTH] - access FPGA memory space\n"
        \o "  /cpu.OFFSET[.LENGTH]  - access CPU memory space\n")
HELP_MSG_ADDR == << 0, 0, 32, 0 >>

\* The device catalog of the running gateware (the core_info CSL), in catalog
\* order: name, offset word (bit 0: read-only), length in bytes, type code.
Catalog ==
  << [name |-> Bytes("A"), offset |-> U32(0),  length |-> U32(20), type |-> 5],
     [name |-> Bytes("B"), offset |-> U32(21), length |-> U32(8),  type |-> 6] >>

\* The payload bytes of a catalog entry: offset, length (big endian), type.
CslPayload(e) == e.offset \o e.length \o << e.type >>

\* The packed core_info blob: the payload length, then per entry the count of
\* leading characters shared with the previous name, the count of the others,
\* those characters and the payload; two zero bytes end it.
RECURSIVE CslEntries(_)
CslEntries(i) ==
  IF i > Len(Catalog) THEN << 0, 0 >>
  ELSE << 0, Len(Catalog[i].name) >> \o Catalog[i].name
       \o CslPayload(Catalog[i]) \o CslEntries(i + 1)
core_info == << 9 >> \o CslEntries(1)

\* CORE_INFO (&_core_info); _core_info_size_be is the two bytes before it.
CORE_INFO == << 0, 0, 48, 2 >>
core_info_size == Len(core_info)

\* The byte at address a of the CPU address space outside the FPGA window:
\* the help message, the core_info blob with its length word, and elsewhere
\* a fixed background (the low byte of the address).
CpuByte(a) ==
  LET h == U32Sub(a, HELP_MSG_ADDR)
      c == U32Sub(a, U32Sub(CORE_INFO, U32(2)))
  IN  IF Hi16(h) = 0 /\ Lo16(h) < Len(tapcp_help_msg) THEN tapcp_help_msg[Lo16(h) + 1]
      ELSE IF Hi16(h) = 0 /\ Lo16(h) = Len(tapcp_help_msg) THEN NUL
      ELSE IF Hi16(c) = 0 /\ Lo16(c) = 0 THEN core_info_size \div 256
      ELSE IF Hi16(c) = 0 /\ Lo16(c) = 1 THEN core_info_size % 256
      ELSE IF Hi16(c) = 0 /\ Lo16(c) < core_info_size + 2 THEN core_info[Lo16(c) - 1]
      ELSE a[4]

\* The addresses of the words of the FPGA window.
FpgaAddrs == { U32Add(FPGA_BASEADDR, U32(4 * i)) : i \in 0..(FpgaWords - 1) }

\* Whether address a lies in the FPGA window.
InFpga(a) ==
  LET d == U32Sub(a, FPGA_BASEADDR) IN U32Lt(d, FPGA_NBYTES)

\* csl_iter_next: the entry after position it, or none.
csl_has_next(it) == it < Len(Catalog)

\* casper_find_dev(fname, &dev_info): the index of the catalog entry named
\* name, 0 when there is none.
casper_find_dev(name) ==
  IF \E i \in 1..Len(Catalog) : Catalog[i].name = name
  THEN CHOOSE i \in 1..Len(Catalog) : Catalog[i].name = name
  ELSE 0

\* The pointer casper_find_dev returns for entry i: the device's memory in the
\* FPGA window, at the offset word with its two flag bits cleared.
DevPtr(i) == U32Add(FPGA_BASEADDR, U32AndNot3(Catalog[i].offset))

\* ------------------------------------------------------------------------
\* The machine: the program's state as one record, so that a callback is an
\* operator from machine to machine.  Fields:
\*   state      struct tapcp_state: write, binary, ptr, nleft, lidx, u32
\*   line_buf   the static line buffer, indices 0..LineBufSize-1
\*   word_rb, word_wb, word_wa   the static `word` of read_fpga_words_binary,
\*              write_fpga_words_binary and write_fpga_words_ascii
\*   csl_iter   the catalog iterator (entries already returned)
\*   mem        the 32-bit words of the FPGA window (and any word stored
\*              outside it), by address
\*   read_f, write_f   the callbacks registered with the TFTP engine
\*   le         whether the CPU is little endian
\* and, for the call in progress: buf (the bytes written to the output
\* buffer), loads and stores (the 32-bit bus accesses made, in order), oob
\* (whether line_buf was indexed outside its bounds).
\* ------------------------------------------------------------------------

\* A 32-bit load from address a.
Load32(M, a) ==
  IF a \in DOMAIN M.mem THEN M.mem[a]
  ELSE IF M.le
       THEN << CpuByte(U32Add(a, U32(3))), CpuByte(U32Add(a, U32(2))),
               CpuByte(U32Add(a, U32(1))), CpuByte(a) >>
       ELSE << CpuByte(a), CpuByte(U32Add(a, U32(1))),
               CpuByte(U32Add(a, U32(2))), CpuByte(U32Add(a, U32(3))) >>

\* The byte at address a.
Load8(M, a) ==
  LET wa == U32AndNot3(a)
      k == U32And3(a)
  IN  IF wa \in DOMAIN M.mem
      THEN (IF M.le THEN M.mem[wa][4 - k] ELSE M.mem[wa][k + 1])
      ELSE CpuByte(a)

\* The element of a one-element set.  A value that a loop hands on is bound
\* as the element of such a set, so that it is computed once.
Only(S) == CHOOSE x \in S : TRUE

\* The machine after the load `word = *(uint32_t *)a`.
DoLoad(M, a) == [M EXCEPT !.loads = Append(@, a)]

\* The machine after the store `*(uint32_t *)a = w`.
DoStore(M, a, w) ==
  [M EXCEPT !.mem = IF a \in DOMAIN @ THEN [@ EXCEPT ![a] = w]
                    ELSE [x \in (DOMAIN @) \cup {a} |-> IF x = a THEN w ELSE @[x]],
            !.stores = Append(@, << a, w >>)]

\* The indices of line_buf.  The variable holds the array up to the last
\* cell written; the cells after it are still zero, as in a static array.
LbIndex == 0..(LineBufSize - 1)

\* line_buf[i], and the machine after line_buf[i] = c.
LbLoad(M, i) == IF i \in DOMAIN M.line_buf THEN M.line_buf[i] ELSE NUL
LbStore(M, i, c) ==
  IF i \in DOMAIN M.line_buf THEN [M EXCEPT !.line_buf[i] = c]
  ELSE IF i \in LbIndex
  THEN [M EXCEPT !.line_buf = [x \in 0..i |-> IF x = i THEN c
                                               ELSE IF x \in DOMAIN @ THEN @[x] ELSE NUL]]
  ELSE [M EXCEPT !.oob = TRUE]

\* The machine after the characters of line are stored from line_buf[0] on.
LbStoreLine(M, line) ==
  [M EXCEPT !.line_buf = [i \in ((DOMAIN @) \cup (0..(Len(line) - 1))) \cap LbIndex |->
                            IF i < Len(line) THEN line[i + 1] ELSE @[i]],
            !.oob = @ \/ Len(line) > LineBufSize]

\* int n -= sizeof(uint32_t): the subtraction is made in unsigned arithmetic.
IntSub4(n) == ToInt(U32Sub(OfInt(n), U32(4)))

\* ------------------------------------------------------------------------
\* Read callbacks.  Each gives the machine after the call; the bytes written
\* are M.buf and the value returned is M.ret.
\* ------------------------------------------------------------------------

casper_tapcp_read_help(M, bytes) ==
  LET len == IF bytes < M.state.nleft THEN bytes ELSE M.state.nleft
  IN  [M EXCEPT !.buf = [i \in 1..len |-> Load8(M, U32Add(M.state.ptr, OfInt(i - 1)))],
                !.state.ptr = U32Add(@, OfInt(len)),
                !.state.nleft = @ - len,
                !.ret = len]

\* The loop that copies the buffered line to the output buffer, from
\* line_buf[state->lidx] to the newline or until len = bytes:
\* << the machine, len >> after it.
RECURSIVE copy_line(_, _, _)
copy_line(M, len, bytes) ==
  IF ~(len < bytes) THEN << M, len >>
  ELSE LET c == LbLoad(M, M.state.lidx)
           M1 == [M EXCEPT !.buf = Append(@, c),
                           !.oob = @ \/ M.state.lidx \notin LbIndex]
       IN  IF c = LF THEN << [M1 EXCEPT !.state.lidx = 0], len + 1 >>
           ELSE copy_line([M1 EXCEPT !.state.lidx = @ + 1], len + 1, bytes)

\* The line of the listing for catalog entry e.
listdev_line(e) ==
  e.name \o << TAB >>
  \o << IF e.offset[4] % 2 = 1 THEN 49 ELSE 51 >> \o << TAB >>
  \o u32_to_hex(U32AndNot3(e.offset), 0) \o << TAB >>
  \o u32_to_hex(e.length, 0) \o << TAB >>
  \o u32_to_hex(U32(e.type), 0) \o << LF >>

RECURSIVE read_listdev_ascii_loop(_, _, _)
read_listdev_ascii_loop(M, len, bytes) ==
  IF ~(len < bytes) THEN [M EXCEPT !.ret = len]
  ELSE IF M.state.lidx = 0 /\ ~csl_has_next(M.csl_iter) THEN [M EXCEPT !.ret = len]
  ELSE LET M1 == IF M.state.lidx = 0
                 THEN LbStoreLine([M EXCEPT !.csl_iter = @ + 1],
                                  listdev_line(Catalog[M.csl_iter + 1]))
                 ELSE M
       IN  Only({ read_listdev_ascii_loop(r[1], r[2], bytes) :
                    r \in { copy_line(M1, len, bytes) } })

\* The listing's reader without the rewind of the catalog iterator at the
\* first callback of a transfer.
read_listdev_ascii_no_rewind(M, bytes) ==
  read_listdev_ascii_loop([M EXCEPT !.state.lidx = IF @ = -1 THEN 0 ELSE @], 0, bytes)

casper_tapcp_read_listdev_ascii(M, bytes) ==
  LET M1 == IF M.state.lidx = -1
            THEN [M EXCEPT !.csl_iter = 0, !.state.lidx = 0]
            ELSE M
  IN  read_listdev_ascii_loop(M1, 0, bytes)

RECURSIVE read_mem_bytes_binary_loop(_, _, _)
read_mem_bytes_binary_loop(M, len, bytes) ==
  IF ~(len < bytes /\ M.state.nleft > 0) THEN [M EXCEPT !.ret = len]
  ELSE read_mem_bytes_binary_loop(
         [M EXCEPT !.buf = Append(@, Load8(M, M.state.ptr)),
                   !.state.ptr = U32Add(@, U32(1)),
                   !.state.nleft = @ - 1],
         len + 1, bytes)

casper_tapcp_read_mem_bytes_binary(M, bytes) == read_mem_bytes_binary_loop(M, 0, bytes)

\* The byte `*(uint32_t *)state->ptr` is converted to: the lowest-order byte
\* of the word at ptr, which is the byte at ptr on a little-endian CPU and
\* the byte at ptr + 3 on a big-endian one.
Load32Low8(M, a) == IF M.le THEN Load8(M, a) ELSE Load8(M, U32Add(a, U32(3)))

\* The loop of read_mem_bytes_ascii that formats up to 16 bytes:
\* << the machine, the characters >>.
RECURSIVE mem_bytes_line(_, _, _)
mem_bytes_line(M, i, line) ==
  IF ~(i < 16) THEN << M, line >>
  ELSE LET hex == u8_to_hex(Load32Low8(M, M.state.ptr), 17)
           M1 == [M EXCEPT !.state.ptr = U32Add(@, U32(1)), !.state.nleft = @ - 1]
           l1 == line \o hex \o (IF i % 4 = 3 /\ i # 15 THEN << SPACE >> ELSE << >>)
       IN  IF M1.state.nleft = 0 THEN << M1, l1 >>
           ELSE mem_bytes_line(M1, i + 1, l1)

RECURSIVE read_mem_bytes_ascii_loop(_, _, _)
read_mem_bytes_ascii_loop(M, len, bytes) ==
  IF ~(len < bytes /\ M.state.nleft > 0) THEN [M EXCEPT !.ret = len]
  ELSE LET M1 == IF M.state.lidx = 0
                 THEN LET label == u32_to_hex(M.state.u32, 1) \o << COLON, SPACE >>
                      IN  Only({ LbStoreLine(f[1], f[2] \o << LF >>) :
                                   f \in { mem_bytes_line(
                                             [M EXCEPT !.state.u32 = U32Add(@, U32(16))],
                                             0, label) } })
                 ELSE M
       IN  Only({ read_mem_bytes_ascii_loop(r[1], r[2], bytes) :
                    r \in { copy_line(M1, len, bytes) } })

casper_tapcp_read_mem_bytes_ascii(M, bytes) == read_mem_bytes_ascii_loop(M, 0, bytes)

RECURSIVE read_fpga_words_binary_loop(_, _, _)
read_fpga_words_binary_loop(M, len, bytes) ==
  IF ~(len < bytes /\ M.state.nleft > 0) THEN [M EXCEPT !.ret = len]
  ELSE LET n1 == M.state.nleft - 1
           k == OfInt(n1)[4] % 4
           M1 == IF k = 3
                 THEN [DoLoad(M, M.state.ptr) EXCEPT
                         !.word_rb = Load32(M, M.state.ptr),
                         !.state.ptr = U32Add(@, U32(4))]
                 ELSE M
       IN  read_fpga_words_binary_loop(
             [M1 EXCEPT !.state.nleft = n1,
                        !.buf = Append(@, M1.word_rb[4 - k])],
             len + 1, bytes)

\* read_fpga_words_binary with a word that is not kept between calls: a call
\* that starts inside a word loads the word again.
read_fpga_words_binary_reload(M, bytes) ==
  read_fpga_words_binary_loop(
    IF M.state.nleft > 0 /\ M.state.nleft % 4 # 0
    THEN [DoLoad(M, U32Sub(M.state.ptr, U32(4))) EXCEPT
            !.word_rb = Load32(M, U32Sub(M.state.ptr, U32(4)))]
    ELSE M,
    0, bytes)

casper_tapcp_read_fpga_words_binary(M, bytes) == read_fpga_words_binary_loop(M, 0, bytes)

\* The loop of read_fpga_words_ascii that formats up to four words:
\* << the machine, the characters >>.
RECURSIVE fpga_words_line(_, _, _)
fpga_words_line(M, i, line) ==
  IF ~(i < 4) THEN << M, line >>
  ELSE LET word == Load32(M, M.state.ptr)
           M1 == [DoLoad(M, M.state.ptr) EXCEPT
                    !.state.ptr = U32Add(@, U32(4)),
                    !.state.nleft = IntSub4(@)]
           l1 == line \o (IF i > 0 THEN << SPACE >> ELSE << >>) \o u32_to_hex(word, 1)
       IN  IF M1.state.nleft = 0 THEN << M1, l1 >>
           ELSE fpga_words_line(M1, i + 1, l1)

RECURSIVE read_fpga_words_ascii_loop(_, _, _)
read_fpga_words_ascii_loop(M, len, bytes) ==
  IF ~(len < bytes /\ M.state.nleft > 0) THEN [M EXCEPT !.ret = len]
  ELSE LET M1 == IF M.state.lidx = 0
                 THEN LET label == u32_to_hex(M.state.u32, 1) \o << COLON, SPACE >>
                      IN  Only({ LbStoreLine(f[1], f[2] \o << LF >>) :
                                   f \in { fpga_words_line(
                                             [M EXCEPT !.state.u32 = U32Add(@, U32(16))],
                                             0, label) } })
                 ELSE M
       IN  Only({ read_fpga_words_ascii_loop(r[1], r[2], bytes) :
                    r \in { copy_line(M1, len, bytes) } })

casper_tapcp_read_fpga_words_ascii(M, bytes) == read_fpga_words_ascii_loop(M, 0, bytes)

\* ------------------------------------------------------------------------
\* Write callbacks.  A packet chain (struct pbuf) is the sequence of its
\* fragments' payloads.  Each callback gives the machine after the call;
\* M.ret is the value returned (the callbacks start with ret = 0, the
\* source's tot_len, which stays 0).
\* ------------------------------------------------------------------------

\* pbuf->tot_len of fragment j of chain: its length and the following ones'.
RECURSIVE tot_len(_, _)
tot_len(chain, j) ==
  IF j > Len(chain) THEN 0 ELSE Len(chain[j]) + tot_len(chain, j + 1)

\* word <<= 8; word |= byte.
shift_in_byte_low(word, byte) == << word[1], word[2], word[3], byte >>
shift_in_byte(word, byte) == U32OrByte(U32Shl8(word), byte)

\* The body of the for loop of write_fpga_words_binary for the byte c; the
\* early `return -1` leaves ret negative.
write_binary_byte(M, c) ==
  IF M.state.nleft = 0 THEN [M EXCEPT !.ret = -1]
  ELSE LET word == shift_in_byte(M.word_wb, c)
           u32 == U32Add(M.state.u32, U32(1))
           M1 == [M EXCEPT !.word_wb = word, !.state.u32 = u32]
           M2 == IF U32And3(u32) = 0
                 THEN [DoStore(M1, M1.state.ptr, word) EXCEPT
                         !.state.ptr = U32Add(@, U32(4))]
                 ELSE M1
       IN  IF M2.state.nleft > 0 THEN [M2 EXCEPT !.state.nleft = @ - 1] ELSE M2

\* The for loop of write_fpga_words_binary over the bytes p[i..j] of a pbuf,
\* in order and up to the first error.  (The range is halved so that the
\* evaluation stays shallow; the bytes are still taken one by one.)
RECURSIVE write_binary_bytes(_, _, _, _)
write_binary_bytes(M, p, i, j) ==
  IF i > j THEN M
  ELSE IF i = j THEN write_binary_byte(M, p[i])
  ELSE Only({ IF L.ret < 0 THEN L ELSE write_binary_bytes(L, p, ((i + j) \div 2) + 1, j) :
                L \in { write_binary_bytes(M, p, i, (i + j) \div 2) } })

RECURSIVE write_binary_chain(_, _, _)
write_binary_chain(M, chain, j) ==
  IF j > Len(chain) THEN M
  ELSE Only({ IF M1.ret < 0 THEN M1
              ELSE IF tot_len(chain, j) <= Len(chain[j]) THEN M1
              ELSE write_binary_chain(M1, chain, j + 1) :
                M1 \in { write_binary_bytes(M, chain[j], 1, Len(chain[j])) } })

casper_tapcp_write_fpga_words_binary(M, chain) == write_binary_chain(M, chain, 1)

\* The loop `while(isxdigit(*plb))` of write_fpga_words_ascii: a run of hex
\* digits is stored word by word.  << the machine, plb >>.
RECURSIVE write_ascii_words(_, _)
write_ascii_words(M, plb) ==
  IF ~isxdigit(LbLoad(M, plb)) THEN << M, plb >>
  ELSE IF 0 <= M.state.nleft /\ M.state.nleft < 4 THEN << [M EXCEPT !.ret = -1], plb >>
  ELSE Only({ write_ascii_words(
                [DoStore(M, M.state.ptr, h[2]) EXCEPT
                   !.word_wa = h[2],
                   !.state.ptr = U32Add(@, U32(4)),
                   !.state.nleft = IF @ > 0 THEN IntSub4(@) ELSE @],
                h[1]) :
                h \in { hex_to_u32(M.line_buf, plb, M.word_wa) } })

\* The loop `while(*plb != '\n')` that processes the buffered line.
\* << the machine, plb >>.  (A run of white space is skipped in one step,
\* to its end q, so that the evaluation stays shallow: q is the first index
\* from plb on that is outside line_buf or holds an LF or no white space.)
RECURSIVE write_ascii_line(_, _)
write_ascii_line(M, plb) ==
  IF plb \notin LbIndex THEN << [M EXCEPT !.oob = TRUE], plb >>
  ELSE Only({ IF q \notin LbIndex THEN << [M EXCEPT !.oob = TRUE], q >>
              ELSE IF LbLoad(M, q) = LF THEN << M, q >>
              ELSE IF ~isxdigit(LbLoad(M, q)) THEN << M, q >>
              ELSE Only({ IF r[1].ret < 0 THEN r ELSE write_ascii_line(r[1], r[2]) :
                            r \in { write_ascii_words(M, q) } }) :
                q \in { CHOOSE k \in plb..LineBufSize :
                          /\ k \notin LbIndex \/ LbLoad(M, k) = LF \/ ~isspace(LbLoad(M, k))
                          /\ \A j \in plb..(k - 1) :
                               LbLoad(M, j) # LF /\ isspace(LbLoad(M, j)) } })

\* The test for the first colon of a line, the label terminator.
is_label_colon_never(c, u32) == FALSE
is_label_colon(c, u32) == c = COLON /\ u32 = U32Zero

\* The body of the for loop of write_fpga_words_ascii for the byte c, with
\* the local plb: << the machine, plb >>.  The early `return -1` leaves ret
\* negative.  plb is put back to line_buf by a colon only: after a line is
\* processed it stays where the processing of the line stopped.
write_ascii_byte(M, plb, c) ==
  IF M.state.lidx >= LineBufSize THEN << [M EXCEPT !.ret = -1], plb >>
  ELSE IF M.state.lidx = 0 /\ isspace(c) THEN << M, plb >>
  ELSE IF is_label_colon(c, M.state.u32)
  THEN << [M EXCEPT !.state.lidx = 0, !.state.u32 = U32(1)], 0 >>
  ELSE IF c = LF
  THEN Only({ IF r[1].ret < 0 THEN r
              ELSE << [r[1] EXCEPT !.state.lidx = 0, !.state.u32 = U32Zero], r[2] >> :
                r \in { write_ascii_line(
                          [LbStore(M, plb, c) EXCEPT !.state.lidx = @ + 1], 0) } })
  ELSE << [LbStore(M, plb, c) EXCEPT !.state.lidx = @ + 1], plb + 1 >>

\* The for loop of write_fpga_words_ascii over the bytes p[i..j] of a pbuf,
\* in order and up to the first error.  << the machine, plb >>.
RECURSIVE write_ascii_bytes(_, _, _, _, _)
write_ascii_bytes(M, plb, p, i, j) ==
  IF i > j THEN << M, plb >>
  ELSE IF i = j THEN write_ascii_byte(M, plb, p[i])
  ELSE Only({ IF L[1].ret < 0 THEN L
              ELSE write_ascii_bytes(L[1], L[2], p, ((i + j) \div 2) + 1, j) :
                L \in { write_ascii_bytes(M, plb, p, i, (i + j) \div 2) } })

RECURSIVE write_ascii_chain(_, _, _, _)
write_ascii_chain(M, plb, chain, j) ==
  IF j > Len(chain) THEN M
  ELSE Only({ IF r[1].ret < 0 THEN r[1]
              ELSE IF tot_len(chain, j) <= Len(chain[j]) THEN r[1]
              ELSE write_ascii_chain(r[1], r[2], chain, j + 1) :
                r \in { write_ascii_bytes(M, plb, chain[j], 1, Len(chain[j])) } })

casper_tapcp_write_fpga_words_ascii(M, chain) ==
  write_ascii_chain(M, M.state.lidx, chain, 1)

\* ------------------------------------------------------------------------
\* Openers.  fname is the requested file name, a sequence of characters.
\* Each gives the machine after the call; M.opened tells whether the opener
\* returned the state (TRUE) or NULL (FALSE).
\* ------------------------------------------------------------------------

\* !strncmp(prefix, fname, strlen(prefix)).
HasPrefix(prefix, fname) ==
  Len(fname) >= Len(prefix) /\ SubSeq(fname, 1, Len(prefix)) = prefix

\* fname without its first n characters.
Drop(fname, n) == SubSeq(fname, n + 1, Len(fname))

\* strchr(fname, '.'): the index of the first dot, 0 when there is none.
strchr_dot(fname) ==
  IF \E i \in 1..Len(fname) : fname[i] = DOT
  THEN CHOOSE i \in 1..Len(fname) : fname[i] = DOT /\ \A j \in 1..(i - 1) : fname[j] # DOT
  ELSE 0

\* The names of the callbacks set_tftp_read and set_tftp_write register.
ReadFns == { "read_help", "read_listdev_ascii", "read_mem_bytes_binary",
             "read_mem_bytes_ascii", "read_fpga_words_binary", "read_fpga_words_ascii" }
WriteFns == { "write_fpga_words_binary", "write_fpga_words_ascii" }

casper_tapcp_open_help(M) ==
  [M EXCEPT !.state.ptr = HELP_MSG_ADDR,
            !.state.nleft = Len(tapcp_help_msg),
            !.read_f = "read_help",
            !.opened = TRUE]

casper_tapcp_open_listdev(M) ==
  IF M.state.binary
  THEN [M EXCEPT !.state.ptr = U32Sub(CORE_INFO, U32(2)),
                 !.state.nleft = core_info_size + 2,
                 !.read_f = "read_mem_bytes_binary",
                 !.opened = TRUE]
  ELSE [M EXCEPT !.state.ptr = CORE_INFO,
                 !.state.lidx = -1,
                 !.read_f = "read_listdev_ascii",
                 !.opened = TRUE]

\* The callback binding at the end of open_dev, and of open_mem for /fpga.
BindFpgaWords(M) ==
  IF ~M.state.write
  THEN IF M.state.binary
       THEN [M EXCEPT !.read_f = "read_fpga_words_binary", !.opened = TRUE]
       ELSE [M EXCEPT !.state.lidx = 0, !.state.u32 = U32Zero,
                      !.read_f = "read_fpga_words_ascii", !.opened = TRUE]
  ELSE IF M.state.binary
       THEN [M EXCEPT !.state.u32 = U32Zero,
                      !.write_f = "write_fpga_words_binary", !.opened = TRUE]
       ELSE [M EXCEPT !.state.lidx = 0, !.state.u32 = U32Zero,
                      !.write_f = "write_fpga_words_ascii", !.opened = TRUE]

\* The bounds check of open_dev on reads: cmd_off + cmd_len > length >> 2,
\* in uint32_t arithmetic.
dev_request_too_long(cmd_off, cmd_len, length) ==
  U32Gt(U32Add(cmd_off, cmd_len), U32Shr2(length))

\* The test of open_dev that disallows writes to read-only devices:
\* state->write && (dev_info.offset & 1).
dev_read_only_never(write, offset) == FALSE
dev_read_only(write, offset) == write /\ offset[4] % 2 = 1

casper_tapcp_open_dev(M, fname0) ==
  LET fname == IF HasPrefix(Bytes("/dev/"), fname0) THEN Drop(fname0, 5) ELSE fname0
      p == strchr_dot(fname)
      name == IF p # 0 THEN SubSeq(fname, 1, p - 1) ELSE fname
      dev == casper_find_dev(name)
      M1 == [M EXCEPT !.state.ptr = IF dev = 0 THEN NULL ELSE DevPtr(dev),
                      !.opened = FALSE]
  IN  IF dev = 0 THEN M1
      ELSE IF dev_read_only(M.state.write, Catalog[dev].offset) THEN M1
      ELSE LET length == Catalog[dev].length
               o == IF p # 0 /\ At(fname, p + 1) # NUL
                    THEN hex_to_u32(fname, p + 1, U32Zero)
                    ELSE << 0, U32Zero >>
               cmd_off == o[2]
               l == IF p # 0 /\ At(fname, p + 1) # NUL
                       /\ ~M.state.write /\ At(fname, o[1]) # NUL
                    THEN hex_to_u32(fname, o[1] + 1, U32Zero)
                    ELSE << 0, U32Zero >>
               cmd_len == IF l[2] = U32Zero
                          THEN U32Sub(U32Shr2(length), cmd_off)
                          ELSE l[2]
           IN  IF cmd_len = U32Zero THEN M1
               ELSE IF ~M.state.write /\ dev_request_too_long(cmd_off, cmd_len, length)
               THEN M1
               ELSE BindFpgaWords(
                      [M1 EXCEPT !.state.ptr = U32Add(@, U32Shl2(cmd_off)),
                                 !.state.nleft = ToInt(U32Shl2(cmd_len))])

casper_tapcp_open_mem(M, fname0) ==
  LET fpga == HasPrefix(Bytes("/fpga."), fname0)
      cpu == ~fpga /\ ~M.state.write /\ HasPrefix(Bytes("/cpu."), fname0)
      fname == IF fpga THEN Drop(fname0, 6) ELSE Drop(fname0, 5)
      baseaddr == IF fpga THEN FPGA_BASEADDR ELSE U32Zero
      nbytes == IF fpga THEN FPGA_NBYTES ELSE U32Zero
      M1 == [M EXCEPT !.opened = FALSE]
  IN  IF ~fpga /\ ~cpu THEN M1
      ELSE IF At(fname, 1) = NUL THEN M1
      ELSE LET o == hex_to_u32(fname, 1, U32Zero)
               l == IF ~M.state.write /\ At(fname, o[1]) # NUL
                    THEN hex_to_u32(fname, o[1] + 1, U32(1))
                    ELSE << 0, U32(1) >>
               cmd_off == U32AndNot3(o[2])
               cmd_len == U32AndNot3(U32Add(l[2], U32(3)))
           IN  IF ~M.state.write /\ cmd_len = U32Zero THEN M1
               ELSE IF ~M.state.write /\ baseaddr = FPGA_BASEADDR
                       /\ U32Gt(U32Add(cmd_off, cmd_len), nbytes)
               THEN M1
               ELSE LET M2 == [M1 EXCEPT
                                 !.state.ptr = U32Add(baseaddr, cmd_off),
                                 !.state.nleft = IF M.state.write
                                                 THEN ToInt(U32Sub(FPGA_NBYTES, cmd_off))
                                                 ELSE ToInt(cmd_len)]
                    IN  IF ~M.state.write /\ baseaddr # FPGA_BASEADDR
                        THEN IF M.state.binary
                             THEN [M2 EXCEPT !.read_f = "read_mem_bytes_binary",
                                             !.opened = TRUE]
                             ELSE [M2 EXCEPT !.state.lidx = 0, !.state.u32 = U32Zero,
                                             !.read_f = "read_mem_bytes_ascii",
                                             !.opened = TRUE]
                        ELSE BindFpgaWords(M2)

\* casper_tapcp_open(fname, mode, write): the resolver.  It fills in the
\* mode and direction of the transfer state and dispatches on the prefix of
\* the name; /help and /listdev are for GET only, and a name without a
\* leading slash is a device name.
casper_tapcp_open(M, fname, binary, write) ==
  LET M1 == [M EXCEPT !.state.binary = binary, !.state.write = write,
                      !.opened = FALSE]
  IN  IF HasPrefix(Bytes("/help"), fname)
      THEN (IF write THEN M1 ELSE casper_tapcp_open_help(M1))
      ELSE IF HasPrefix(Bytes("/listdev"), fname)
      THEN (IF write THEN M1 ELSE casper_tapcp_open_listdev(M1))
      ELSE IF HasPrefix(Bytes("/fpga."), fname) \/ HasPrefix(Bytes("/cpu."), fname)
      THEN casper_tapcp_open_mem(M1, fname)
      ELSE IF HasPrefix(Bytes("/dev/"), fname) \/ At(fname, 1) # 47
      THEN casper_tapcp_open_dev(M1, fname)
      ELSE M1

\* ------------------------------------------------------------------------
\* The state machine: the TFTP engine opens a transfer, calls its callback
\* chunk by chunk, and closes it.
\* ------------------------------------------------------------------------

VARIABLES
  state,      \* struct tapcp_state
  line_buf,   \* static uint8_t line_buf[]
  word_rb,    \* static word of read_fpga_words_binary
  word_wb,    \* static word of write_fpga_words_binary
  word_wa,    \* static word of write_fpga_words_ascii
  csl_iter,   \* the catalog iterator of csl_iter_init / csl_iter_next
  mem,        \* the words of the FPGA window, by address
  read_f,     \* the callback given to set_tftp_read
  write_f,    \* the callback given to set_tftp_write
  le,         \* the CPU is little endian
  script,     \* the transfers the client still asks for, in order
  req,        \* the request of the current transfer
  phase,      \* idle, get, put, eof, sent, err, fail or line
  opened,     \* the last open returned the state, not NULL
  pending,    \* PUT: the payload bytes not yet delivered
  out,        \* GET: the bytes produced so far
  ret,        \* the value returned by the last callback
  nreq,       \* the number of bytes asked of the last read callback
  loads,      \* the addresses of the 32-bit loads of the current transfer
  stores,     \* the << address, word >> 32-bit stores of the current transfer
  oob,        \* line_buf has been indexed outside its bounds
  log         \* the transfers closed so far

vars == << state, line_buf, word_rb, word_wb, word_wa, csl_iter, mem, read_f,
           write_f, le, script, req, phase, opened, pending, out, ret, nreq,
           loads, stores, oob, log >>

\* The largest number of bytes a read callback of the model is asked for,
\* besides the engine's block size; the largest number of bytes of a write
\* callback's chain, besides a chain with the whole payload.
MaxChunk == 6
MaxPkt == 5

ChunkSizes == (1..MaxChunk) \cup { TFTP_BLOCK }

\* The FPGA window at power up: the bytes 00 01 02 03 ... in address order.
InitialMem ==
  [a \in FpgaAddrs |->
     LET o == Lo16(U32Sub(a, FPGA_BASEADDR)) IN << o, o + 1, o + 2, o + 3 >>]

\* The machine before the first transfer, on a CPU of endianness l.
Machine0(l) ==
  [state |-> [write |-> FALSE, binary |-> FALSE, ptr |-> NULL, nleft |-> 0,
              lidx |-> 0, u32 |-> U32Zero],
   line_buf |-> << >>,
   word_rb |-> U32Zero, word_wb |-> U32Zero, word_wa |-> U32Zero,
   csl_iter |-> 0, mem |-> InitialMem, read_f |-> "none", write_f |-> "none",
   le |-> l, buf |-> << >>, loads |-> << >>, stores |-> << >>, oob |-> FALSE,
   ret |-> 0, opened |-> FALSE]

\* The machine of the current state, at the start of a call.
Cur ==
  [state |-> state, line_buf |-> line_buf, word_rb |-> word_rb,
   word_wb |-> word_wb, word_wa |-> word_wa, csl_iter |-> csl_iter,
   mem |-> mem, read_f |-> read_f, write_f |-> write_f, le |-> le,
   buf |-> << >>, loads |-> loads, stores |-> stores, oob |-> oob,
   ret |-> 0, opened |-> opened]

\* The program's variables become those of machine M.
Becomes(M) ==
  /\ state' = M.state
  /\ line_buf' = M.line_buf
  /\ word_rb' = M.word_rb
  /\ word_wb' = M.word_wb
  /\ word_wa' = M.word_wa
  /\ csl_iter' = M.csl_iter
  /\ mem' = M.mem
  /\ read_f' = M.read_f
  /\ write_f' = M.write_f
  /\ loads' = M.loads
  /\ stores' = M.stores
  /\ oob' = M.oob
  /\ opened' = M.opened

\* The registered read callback f called for `bytes` bytes.
CallRead(M, f, bytes) ==
  CASE f = "read_help" -> casper_tapcp_read_help(M, bytes)
    [] f = "read_listdev_ascii" -> casper_tapcp_read_listdev_ascii(M, bytes)
    [] f = "read_mem_bytes_binary" -> casper_tapcp_read_mem_bytes_binary(M, bytes)
    [] f = "read_mem_bytes_ascii" -> casper_tapcp_read_mem_bytes_ascii(M, bytes)
    [] f = "read_fpga_words_binary" -> casper_tapcp_read_fpga_words_binary(M, bytes)
    [] f = "read_fpga_words_ascii" -> casper_tapcp_read_fpga_words_ascii(M, bytes)

\* The registered write callback f called with a packet chain.
CallWrite(M, f, chain) ==
  CASE f = "write_fpga_words_binary" -> casper_tapcp_write_fpga_words_binary(M, chain)
    [] f = "write_fpga_words_ascii" -> casper_tapcp_write_fpga_words_ascii(M, chain)

\* A request of the client: the file name, the mode, the direction, and for
\* a PUT the payload, which is `data` or, with `echo`, the bytes the
\* transfer before produced.
Get(name, binary) ==
  [fname |-> Bytes(name), binary |-> binary, write |-> FALSE,
   data |-> << >>, echo |-> FALSE]
Put(name, binary, data) ==
  [fname |-> Bytes(name), binary |-> binary, write |-> TRUE,
   data |-> data, echo |-> FALSE]
PutEcho(name, binary) ==
  [fname |-> Bytes(name), binary |-> binary, write |-> TRUE,
   data |-> << >>, echo |-> TRUE]

\* The engine opens the next transfer of the script.
Open ==
  /\ phase = "idle"
  /\ script # << >>
  /\ \E r \in { Head(script) } :
       \E M \in { casper_tapcp_open([Cur EXCEPT !.loads = << >>, !.stores = << >>],
                                    r.fname, r.binary, r.write) } :
         /\ Becomes(M)
         /\ req' = r
         /\ phase' = IF ~M.opened THEN "fail" ELSE IF r.write THEN "put" ELSE "get"
         /\ pending' = IF ~M.opened \/ ~r.write THEN << >>
                       ELSE IF r.echo THEN out ELSE r.data
  /\ script' = Tail(script)
  /\ out' = << >>
  /\ ret' = 0
  /\ nreq' = 0
  /\ UNCHANGED << le, log >>

\* The engine calls the read callback for n bytes; fewer than n bytes end
\* the transfer.
ReadCallback(n) ==
  /\ phase = "get"
  /\ \E M \in { CallRead(Cur, read_f, n) } :
         /\ Becomes(M)
         /\ out' = out \o M.buf
         /\ ret' = M.ret
         /\ phase' = IF M.ret < n THEN "eof" ELSE "get"
  /\ nreq' = n
  /\ UNCHANGED << le, script, req, pending, log >>

\* The engine calls the write callback with the next k bytes of the payload
\* in a chain of one fragment (j = 0) or of two, of j and k - j bytes.  A
\* negative return aborts the transfer; the last byte ends it.
WriteCallback(k, j) ==
  /\ phase = "put"
  /\ pending # << >>
  /\ k \in 1..Len(pending)
  /\ j \in 0..(k - 1)
  /\ \E M \in { CallWrite(Cur, write_f,
                             IF j = 0 THEN << SubSeq(pending, 1, k) >>
                             ELSE << SubSeq(pending, 1, j), SubSeq(pending, j + 1, k) >>) } :
         /\ Becomes(M)
         /\ ret' = M.ret
         /\ pending' = SubSeq(pending, k + 1, Len(pending))
         /\ phase' = IF M.ret < 0 THEN "err"
                     ELSE IF k = Len(pending) THEN "sent" ELSE "put"
  /\ UNCHANGED << le, script, req, out, nreq, log >>

\* A PUT with an empty payload ends without a write callback.
EmptyPut ==
  /\ phase = "put"
  /\ pending = << >>
  /\ phase' = "sent"
  /\ UNCHANGED << state, line_buf, word_rb, word_wb, word_wa, csl_iter, mem,
                  read_f, write_f, le, script, req, opened, pending, out, ret,
                  nreq, loads, stores, oob, log >>

\* The engine closes the transfer; the program's state stays as it is.
Close ==
  /\ phase \in { "eof", "sent", "err", "fail" }
  /\ log' = Append(log, [req |-> req, phase |-> phase, out |-> out, ret |-> ret,
                         loads |-> loads, stores |-> stores, state |-> state])
  /\ phase' = "idle"
  /\ UNCHANGED << state, line_buf, word_rb, word_wb, word_wa, csl_iter, mem,
                  read_f, write_f, le, script, req, opened, pending, out, ret,
                  nreq, loads, stores, oob >>

\* The state before the first transfer.  A scenario is << the CPU is little
\* endian, the script of the client >>.
InitWith(scenarios) ==
  /\ \E sc \in scenarios : le = sc[1] /\ script = sc[2]
  /\ state = Machine0(le).state
  /\ line_buf = Machine0(le).line_buf
  /\ word_rb = U32Zero
  /\ word_wb = U32Zero
  /\ word_wa = U32Zero
  /\ csl_iter = 0
  /\ mem = InitialMem
  /\ read_f = "none"
  /\ write_f = "none"
  /\ req = Get("", FALSE)
  /\ phase = "idle"
  /\ opened = FALSE
  /\ pending = << >>
  /\ out = << >>
  /\ ret = 0
  /\ nreq = 0
  /\ loads = << >>
  /\ stores = << >>
  /\ oob = FALSE
  /\ log = << >>

\* GET transfers, one per run: every read codec, chunked in every way.  The
\* reads of the CPU space, where the byte order of the CPU shows, are made on
\* a CPU of either byte order.
CpuGetRequests ==
  { Get(n, b) : n \in { "/cpu.0.10", "/cpu.2005.6" }, b \in BOOLEAN }
GetRequests ==
  { Get("/help", b) : b \in BOOLEAN }
  \cup { Get("/listdev", b) : b \in BOOLEAN }
  \cup { Get(n, b) : n \in { "A", "A.1.2", "/dev/A.3", "B", "/fpga.0.10",
                             "/fpga.4", "/fpga.0.4" },
                     b \in BOOLEAN }
  \cup CpuGetRequests

InitGet ==
  InitWith({ << TRUE, << r >> >> : r \in GetRequests }
           \cup { << FALSE, << r >> >> : r \in CpuGetRequests })
NextGet == Open \/ (\E n \in ChunkSizes : ReadCallback(n)) \/ Close
SpecGet == InitGet /\ [][NextGet]_vars

\* PUT transfers, one per run: both write codecs, the payload cut into
\* callbacks and fragments in every way.
TextPayloads ==
  { Bytes("label: 00 11 22 33\n"),
    Bytes("00000000 00000011 00000022 00000033\n"),
    Bytes("00000000000000110000002233\n"),
    Bytes("label: DEADBEEF CAFEBABE\nmore: 12345678\n"),
    Bytes("cafe01\n2 3\n"),
    Bytes("\n: 5\n\nx: 6 zz 7\n") }
BinaryPayloads ==
  { << 222, 173, 190, 239, 1, 2, 3, 4 >>,
    << 9, 8, 7, 6, 5, 4, 3 >>,
    << 1, 1, 1, 1, 2, 2, 2, 2, 3, 3, 3, 3, 4, 4, 4, 4, 5, 5, 5, 5, 6, 6, 6, 6 >> }
PutTargets == { "A", "/dev/A.3", "/fpga.10", "A.6", "A.FFFFFFFF", "/fpga.40", "B" }
PutRequests ==
  { Put(t, FALSE, d) : t \in PutTargets, d \in TextPayloads }
  \cup { Put(t, TRUE, d) : t \in PutTargets, d \in BinaryPayloads }

InitPut == InitWith({ << TRUE, << r >> >> : r \in PutRequests })
NextPut ==
  \/ Open
  \/ \E k \in (1..MaxPkt) \cup { Len(pending) }, j \in 0..MaxPkt : WriteCallback(k, j)
  \/ Close
SpecPut == InitPut /\ [][NextPut]_vars

\* Opens alone: device names with every pair of an offset and a length of
\* OpenOffs and OpenLens, PUT of the read-only resources, and for contrast
\* GET of those and PUT of a writable device.
OpenOffs ==
  { U32Zero, U32(1), U32(4), U32(5), U32(6),
    << 63, 255, 255, 255 >>, << 64, 0, 0, 0 >>, << 128, 0, 0, 0 >>,
    << 255, 255, 255, 251 >>, << 255, 255, 255, 254 >>, << 255, 255, 255, 255 >> }
OpenLens ==
  { U32(1), U32(2), U32(5), U32(6), << 64, 0, 0, 0 >>, << 127, 255, 255, 255 >>,
    << 192, 0, 0, 1 >>, << 255, 255, 255, 255 >> }
OpenDevs == { "A", "/dev/A", "B" }

\* The file name NAME.OFF.LEN, the numbers in hex without leading zeros.
DevFileName(dev, off, len) ==
  Bytes(dev) \o << DOT >> \o u32_to_hex(off, 0) \o << DOT >> \o u32_to_hex(len, 0)

ReadOnlyNames == { "/cpu.0", "/cpu.2000.4", "/help", "/listdev", "B", "/dev/B.1", "B.0.1" }
OpenRequests ==
  { [Get("", b) EXCEPT !.fname = DevFileName(d, o, l)] :
      d \in OpenDevs, o \in OpenOffs, l \in OpenLens, b \in BOOLEAN }
  \cup { Put(n, b, << 1, 2, 3, 4 >>) : n \in ReadOnlyNames \cup { "A", "/fpga.0" }, b \in BOOLEAN }
  \cup { Get(n, b) : n \in ReadOnlyNames \ { "/cpu.0" }, b \in BOOLEAN }

\* Scripts of one open, and of an open after a transfer that registered
\* callbacks.
InitOpen ==
  InitWith({ << TRUE, << r >> >> : r \in OpenRequests }
           \cup { << TRUE, << Put("A", TRUE, << >>), Put(n, TRUE, << 1, 2, 3, 4 >>) >> >> :
                    n \in ReadOnlyNames })
NextOpen ==
  \/ Open
  \/ \E k \in 1..MaxPkt, j \in 0..MaxPkt : WriteCallback(k, j)
  \/ EmptyPut
  \/ Close
SpecOpen == InitOpen /\ [][NextOpen]_vars

\* An OCTET-mode PUT of whole words to a word-aligned FPGA region, then an
\* OCTET-mode GET of the region.  A region is the file names that PUT and
\* GET it and its number of words.
BinaryRegions ==
  { [put |-> "A",        get |-> "A.0.2",      words |-> 2],
    [put |-> "/dev/A.3", get |-> "/dev/A.3.2", words |-> 2],
    [put |-> "/fpga.10", get |-> "/fpga.10.8", words |-> 2],
    [put |-> "A.4",      get |-> "A.4.1",      words |-> 1],
    [put |-> "/fpga.1C", get |-> "/fpga.1C.4", words |-> 1],
    [put |-> "A",        get |-> "A",          words |-> 5] }
WordPayloads ==
  { << 222, 173, 190, 239, 1, 2, 3, 4 >>,
    << 0, 0, 0, 0, 255, 255, 255, 255 >>,
    << 9, 8, 7, 6 >>,
    << 128, 0, 0, 1 >>,
    << 1, 1, 1, 1, 2, 2, 2, 2, 3, 3, 3, 3, 4, 4, 4, 4, 5, 5, 5, 5 >> }
InitRoundTrip ==
  InitWith(UNION { { << TRUE, << Put(g.put, TRUE, d), Get(g.get, TRUE) >> >> :
                       d \in { w \in WordPayloads : Len(w) = 4 * g.words } } :
                     g \in BinaryRegions })
NextRoundTrip ==
  \/ Open
  \/ \E k \in (1..MaxPkt) \cup { Len(pending) }, j \in 0..MaxPkt : WriteCallback(k, j)
  \/ \E n \in ChunkSizes : ReadCallback(n)
  \/ Close
SpecRoundTrip == InitRoundTrip /\ [][NextRoundTrip]_vars

\* A TEXT-mode GET of an FPGA region, then an OCTET-mode GET of it.
FpgaRegionNames == { "A", "A.1.2", "/dev/A.3", "B", "/fpga.0.10", "/fpga.4" }
InitTextBinary ==
  InitWith({ << TRUE, << Get(n, FALSE), Get(n, TRUE) >> >> : n \in FpgaRegionNames })
NextTextBinary == Open \/ (\E n \in ChunkSizes : ReadCallback(n)) \/ Close
SpecTextBinary == InitTextBinary /\ [][NextTextBinary]_vars

\* A TEXT-mode GET of an FPGA region, a TEXT-mode PUT of the bytes it
\* produced to the region's offset, and a second TEXT-mode GET of the
\* region.  A region is the file names that GET and PUT it, the byte offset
\* of its first word in the FPGA window and its number of words.
HexdumpRegions ==
  { [get |-> "A",          put |-> "A",        first |-> 0,  words |-> 5],
    [get |-> "A.1.2",      put |-> "/dev/A.1", first |-> 4,  words |-> 2],
    [get |-> "/fpga.0.10", put |-> "/fpga.0",  first |-> 0,  words |-> 4],
    [get |-> "/fpga.C.8",  put |-> "/fpga.C",  first |-> 12, words |-> 2] }
InitHexdump ==
  InitWith({ << TRUE, << Get(g.get, FALSE), PutEcho(g.put, FALSE), Get(g.get, FALSE) >> >> :
               g \in HexdumpRegions })
\* The GETs are made in callbacks of the engine's block size, which deliver
\* the whole dump, or of MaxChunk bytes.
HexdumpChunks == { MaxChunk, TFTP_BLOCK }
NextHexdump ==
  \/ Open
  \/ \E n \in HexdumpChunks : ReadCallback(n)
  \/ \E k \in (1..MaxPkt) \cup { Len(pending) }, j \in 0..MaxPkt : WriteCallback(k, j)
  \/ Close
SpecHexdump == InitHexdump /\ [][NextHexdump]_vars

\* TEXT-mode GETs of two and three hexdump lines, from device, /fpga and
\* /cpu regions at several offsets; the /cpu ones on a CPU of either byte
\* order, one across the end of the address space.
LabelFpgaNames == { "A", "A.2", "/dev/A.3.1", "B", "/fpga.4.1C", "/fpga.0.20" }
LabelCpuNames == { "/cpu.2005.21", "/cpu.FFFFFFF0.20" }
InitLabel ==
  InitWith({ << TRUE, << Get(n, FALSE) >> >> : n \in LabelFpgaNames \cup LabelCpuNames }
           \cup { << FALSE, << Get(n, FALSE) >> >> : n \in LabelCpuNames })
NextLabel == Open \/ (\E n \in ChunkSizes : ReadCallback(n)) \/ Close
SpecLabel == InitLabel /\ [][NextLabel]_vars

\* The listing: a TEXT-mode GET of /listdev chunked in every way, and the
\* formatting of one line applied to catalog entries of other gateware:
\* names, offset words with and without flag bits, lengths and type codes
\* with one to eight significant hex digits and with zero digits inside.
ListingNames == { Bytes("A"), Bytes("sys_clkcounter") }
ListingOffsets ==
  { U32Zero, U32(1), U32(3), U32(20), U32(21), U32(256), << 0, 1, 0, 0 >>,
    << 10, 11, 12, 13 >>, << 255, 255, 255, 255 >> }
ListingLengths == { U32Zero, U32(4), U32(256), U32(4096), << 171, 205, 239, 1 >> }
ListingTypes == { 0, 5, 31, 160, 255 }
ListingEntries ==
  { [name |-> n, offset |-> o, length |-> l, type |-> t] :
      n \in ListingNames, o \in ListingOffsets, l \in ListingLengths, t \in ListingTypes }

\* The line formatting of read_listdev_ascii applied to entry e: the request
\* records the entry (its name and payload bytes), the output its line.
FormatEntry(e) ==
  /\ phase = "idle"
  /\ log = << >>
  /\ script # << >>
  /\ \E M \in { LbStoreLine(Cur, listdev_line(e)) } :
       /\ line_buf' = M.line_buf
       /\ oob' = M.oob
       /\ out' = [i \in 1..Len(listdev_line(e)) |-> M.line_buf[i - 1]]
  /\ req' = [req EXCEPT !.fname = e.name, !.data = CslPayload(e)]
  /\ phase' = "line"
  /\ script' = << >>
  /\ UNCHANGED << state, word_rb, word_wb, word_wa, csl_iter, mem, read_f,
                  write_f, le, opened, pending, ret, nreq, loads, stores, log >>

InitListing == InitWith({ << TRUE, << Get("/listdev", FALSE) >> >> })
NextListing ==
  \/ Open
  \/ \E n \in ChunkSizes : ReadCallback(n)
  \/ Close
  \/ \E e \in ListingEntries : FormatEntry(e)
SpecListing == InitListing /\ [][NextListing]_vars

\* Requests whose device is not in the catalog or whose OFF or LEN field is
\* not a number of 1 to 8 hex digits, and for contrast well-formed ones; GET
\* in both modes and PUT.
UnknownNames == { "C", "/dev/C", "AA", "a", "A1.0.1", "/dev/.0", "/dev/B0" }
MalformedNames ==
  { "A.zz", "A.1x2", "A.123456789", "A.1.", "A.", "A..2", "A.1.2.3", "A.1.2z",
    "/dev/A.-1", "A.0x1", "/fpga.zz", "/fpga.0x4", "/fpga.0.4.4", "/fpga.4,8",
    "/fpga.000000004", "/cpu.g", "/cpu.0-4", "/cpu.2000.1g" }
WellFormedNames == { "A", "A.1", "/dev/A.1.2", "/fpga.4", "/fpga.4.8", "/cpu.2000.4" }
ResolveNames == UnknownNames \cup MalformedNames \cup WellFormedNames
InitResolve ==
  InitWith({ << TRUE, << Get(n, b) >> >> : n \in ResolveNames, b \in BOOLEAN }
           \cup { << TRUE, << Put(n, TRUE, << 1, 2, 3, 4, 5, 6 >>) >> >> : n \in ResolveNames })
NextResolve ==
  \/ Open
  \/ \E n \in { MaxChunk, TFTP_BLOCK } : ReadCallback(n)
  \/ \E k \in 1..MaxPkt, j \in 0..MaxPkt : WriteCallback(k, j)
  \/ Close
SpecResolve == InitResolve /\ [][NextResolve]_vars

\* PUTs to targets whose open sets an upper bound of 0, 4, 8 or 20 bytes,
\* with payloads within and beyond it.  A target is its file name, the byte
\* offset of its first word in the FPGA window and its bound in bytes.
BoundedTargets ==
  { [name |-> "A",        first |-> 0,  bound |-> 20],
    [name |-> "A.1",      first |-> 4,  bound |-> 16],
    [name |-> "A.4",      first |-> 16, bound |-> 4],
    [name |-> "/dev/A.3", first |-> 12, bound |-> 8],
    [name |-> "/fpga.1C", first |-> 28, bound |-> 4 * FpgaWords - 28],
    [name |-> "/fpga.18", first |-> 24, bound |-> 4 * FpgaWords - 24],
    [name |-> "/fpga.20", first |-> 32, bound |-> 4 * FpgaWords - 32] }
\* Payloads that end inside a word.
PartialPayloads == { << 170, 187 >>, << 1, 2, 3, 4, 5 >>, << 9, 8, 7, 6, 5, 4, 3 >> }
InitOverflow ==
  InitWith({ << TRUE, << Put(t.name, FALSE, d) >> >> : t \in BoundedTargets, d \in TextPayloads }
           \cup { << TRUE, << Put(t.name, TRUE, d) >> >> :
                    t \in BoundedTargets, d \in BinaryPayloads \cup PartialPayloads }
           \cup { << TRUE, << Put("A", TRUE, d), Put("A.1", TRUE, e) >> >> :
                    d \in PartialPayloads, e \in PartialPayloads })
NextOverflow ==
  \/ Open
  \/ \E k \in (1..MaxPkt) \cup { Len(pending) }, j \in 0..MaxPkt : WriteCallback(k, j)
  \/ Close
SpecOverflow == InitOverflow /\ [][NextOverflow]_vars

\* Opens with offsets and lengths up to and past the end of the resource,
\* and the transfers that follow.  The device GETs whose LEN is zero or
\* absent: the file name, the catalog entry and the value of OFF.
LenAbsentGets ==
  { [name |-> "A",               dev |-> 1, off |-> U32Zero],
    [name |-> "A.0",             dev |-> 1, off |-> U32Zero],
    [name |-> "A.1",             dev |-> 1, off |-> U32(1)],
    [name |-> "/dev/A.4",        dev |-> 1, off |-> U32(4)],
    [name |-> "A.4.0",           dev |-> 1, off |-> U32(4)],
    [name |-> "A.5",             dev |-> 1, off |-> U32(5)],
    [name |-> "A.5.0",           dev |-> 1, off |-> U32(5)],
    [name |-> "A.6",             dev |-> 1, off |-> U32(6)],
    [name |-> "A.6.0",           dev |-> 1, off |-> U32(6)],
    [name |-> "A.7",             dev |-> 1, off |-> U32(7)],
    [name |-> "/dev/A.FFFFFFFF", dev |-> 1, off |-> << 255, 255, 255, 255 >>],
    [name |-> "B",               dev |-> 2, off |-> U32Zero],
    [name |-> "B.1",             dev |-> 2, off |-> U32(1)],
    [name |-> "B.2",             dev |-> 2, off |-> U32(2)],
    [name |-> "B.3.0",           dev |-> 2, off |-> U32(3)] }
BoundsGetNames ==
  { t.name : t \in LenAbsentGets }
  \cup { "A.2.3", "A.1.FFFFFFFF", "B.0.2", "/fpga.0.20", "/fpga.1C", "/fpga.4.8",
          "/cpu.2000.4", "/cpu.0.FFFFFFF0", "/cpu.0.80000000", "/help", "/listdev" }
BoundsPutNames == { "A", "A.4", "A.6", "/fpga.1C", "/fpga.40" }
BoundsChunks == { 1, 3, MaxChunk, TFTP_BLOCK }
InitBounds ==
  InitWith({ << TRUE, << Get(n, b) >> >> : n \in BoundsGetNames, b \in BOOLEAN }
           \cup { << TRUE, << Put(n, TRUE, << 1, 2, 3, 4, 5, 6 >>) >> >> : n \in BoundsPutNames }
           \cup { << TRUE, << Put(n, FALSE, Bytes("1 2\n")) >> >> : n \in BoundsPutNames })
NextBounds ==
  \/ Open
  \/ \E n \in BoundsChunks : ReadCallback(n)
  \/ \E k \in 1..MaxPkt : WriteCallback(k, 0)
  \/ Close
SpecBounds == InitBounds /\ [][NextBounds]_vars

\* The line buffer at its limits.  The widest listing line: a name of 255
\* characters with an offset, a length and a type of full width.
LongName == [i \in 1..255 |-> 65]
LineBufEntries ==
  { [name |-> n, offset |-> o, length |-> << 255, 255, 255, 255 >>, type |-> 255] :
      n \in { LongName, Bytes("A") }, o \in { << 255, 255, 255, 255 >>, U32(1) } }
\* TEXT payloads: a line of more characters than line_buf holds with no LF, a
\* line that fills line_buf to its last cell followed by a short line, a
\* line one character shorter followed by the same, and many short lines.
Chars(c, n) == [i \in 1..n |-> c]
LongLine == Chars(49, LineBufSize + 1)
FullLine == << 49 >> \o Chars(SPACE, LineBufSize - 2) \o << LF >>
LineBufPayloads ==
  { LongLine,
    LongLine \o << LF >>,
    FullLine \o Bytes("2 3\n"),
    << 49 >> \o Chars(SPACE, LineBufSize - 3) \o Bytes("\n2\n"),
    Bytes("1\n2\n3\n4\n"),
    Bytes("a: 1\n\n\nb: 2\n: 3\n") }
LineBufPkts == { 1, MaxPkt, LineBufSize, LineBufSize + MaxPkt }
InitLineBuf ==
  InitWith({ << TRUE, << Put("A", FALSE, d) >> >> : d \in LineBufPayloads }
           \cup { << TRUE, << Get(n, FALSE) >> >> :
                    n \in { "A", "/fpga.0.20", "/cpu.2005.21", "/listdev" } })
NextLineBuf ==
  \/ Open
  \/ \E n \in ChunkSizes : ReadCallback(n)
  \/ \E k \in LineBufPkts : WriteCallback(IF k > Len(pending) THEN Len(pending) ELSE k, 0)
  \/ Close
  \/ \E e \in LineBufEntries : FormatEntry(e)
SpecLineBuf == InitLineBuf /\ [][NextLineBuf]_vars

\* TEXT-mode PUTs of labelled lines: every line that is not blank has a
\* colon; some lines are blank and some hold a label and its colon only.
LabelledPayloads ==
  { Bytes("a: 1\n\n\nb: 2\n: 3\n"),
    Bytes("label: DEADBEEF\n0010: 12 345\n"),
    Bytes("a:\nb: 5\n"),
    Bytes("x: 1 2\ny:\n\nz: 3\n"),
    Bytes("c: 1\n:\n: 2\n") }
InitColon == InitWith({ << TRUE, << Put("/fpga.0", FALSE, d) >> >> : d \in LabelledPayloads })
NextColon ==
  \/ Open
  \/ \E k \in (1..MaxPkt) \cup { Len(pending) }, j \in 0..MaxPkt : WriteCallback(k, j)
  \/ Close
SpecColon == InitColon /\ [][NextColon]_vars

\* Opens of devices and of /fpga with offsets and lengths that are not
\* multiples of 4, and the transfers that follow.
AlignGetNames ==
  { "/fpga.5.3", "/fpga.7.1", "/fpga.2.A", "/fpga.1.1F", "/fpga.1E.2", "A", "A.1.2", "A.3.1",
    "B.1", "/dev/A.FFFFFFFF", "A.6" }
AlignPutNames == { "/fpga.6", "/fpga.1D", "/fpga.3", "A", "A.1", "/dev/A.3" }
InitAlign ==
  InitWith({ << TRUE, << Get(n, b) >> >> : n \in AlignGetNames, b \in BOOLEAN }
           \cup { << TRUE, << Put(n, TRUE, << 1, 2, 3, 4, 5, 6, 7, 8, 9 >>) >> >> : n \in AlignPutNames }
           \cup { << TRUE, << Put(n, FALSE, Bytes("x: 1 23\n456\n")) >> >> : n \in AlignPutNames })
NextAlign ==
  \/ Open
  \/ \E n \in ChunkSizes : ReadCallback(n)
  \/ \E k \in 1..MaxPkt, j \in 0..MaxPkt : WriteCallback(k, j)
  \/ Close
SpecAlign == InitAlign /\ [][NextAlign]_vars

\* ------------------------------------------------------------------------
\* Reads (SpecGet)
\* ------------------------------------------------------------------------

\* The output of GET request r when the engine's one callback asks for a
\* whole block, which no output of the requests modelled fills.
ReadAll(r, l) ==
  Only({ CallRead(M, M.read_f, TFTP_BLOCK).buf :
           M \in { casper_tapcp_open(Machine0(l), r.fname, r.binary, FALSE) } })

\* The read callbacks that format lines in line_buf, and what a read
\* callback has still to deliver: bytes of a formatted line, source data.
TextReadFns == { "read_listdev_ascii", "read_mem_bytes_ascii", "read_fpga_words_ascii" }
UnsentLine == read_f \in TextReadFns /\ state.lidx > 0
SourceLeft ==
  IF read_f = "read_listdev_ascii" THEN state.lidx = -1 \/ csl_has_next(csl_iter)
  ELSE state.nleft > 0

\* C1: Chunk independence of reads.  Whatever the sizes of the callbacks, a
\* GET that has ended (a callback returned fewer bytes than asked) has
\* produced the bytes that the schedule of one large callback produces.
C1_ChunkIndependence ==
  (phase = "eof" /\ ~req.write) => out = ReadAll(req, le)

\* C10: Producer contract.  A read callback asked for nreq bytes returns ret
\* with 0 <= ret <= nreq, and ret < nreq only when nothing is left to deliver:
\* no byte of a formatted line and no source data.
C10_ProducerContract ==
  (phase \in { "get", "eof" } /\ nreq > 0) =>
    /\ 0 <= ret /\ ret <= nreq
    /\ ret < nreq => ~UnsentLine /\ ~SourceLeft

\* ------------------------------------------------------------------------
\* Writes (SpecPut)
\* ------------------------------------------------------------------------

\* The machine after PUT request r is opened and its whole payload comes in
\* one callback, in a chain of one fragment.
WriteAll(r) ==
  Only({ CallWrite(M, M.write_f, << r.data >>) :
           M \in { casper_tapcp_open(Machine0(TRUE), r.fname, r.binary, TRUE) } })

\* C2: Packet independence of writes.  However the payload is cut into
\* callbacks and fragments, a PUT that has taken its whole payload leaves the
\* memory and the cursor that the payload in one piece leaves.
C2_PacketIndependence ==
  phase = "sent" =>
    \A W \in { WriteAll(req) } : mem = W.mem /\ state.ptr = W.state.ptr

\* The words of a hexdump, by the rules of the Write Formats comment: the
\* lines end with LF; what precedes the first colon of a line is a label;
\* whitespace separates groups of hex digits; a group is a concatenation of
\* 8-digit values, the last of which may be shorter; the first other
\* character ends the line's data.
\* The n-th smallest member of a set of numbers.
Nth(S, n) == CHOOSE x \in S : Cardinality({ y \in S : y < x }) = n - 1

\* The value of a run of 1 to 8 hex digits.
DigitsValue(digits) ==
  LET pad == 8 - Len(digits)
      d == [k \in 1..8 |-> IF k <= pad THEN 0 ELSE HexVal(digits[k - pad])]
  IN  << 16 * d[1] + d[2], 16 * d[3] + d[4], 16 * d[5] + d[6], 16 * d[7] + d[8] >>

\* The words of one line (without its LF).  The data start after the first
\* colon and end before the first character that is neither whitespace nor a
\* hex digit; a value starts at every 8th digit of a group.
LineWords(line) ==
  LET colons == { i \in 1..Len(line) : line[i] = COLON }
      from == IF colons = {} THEN 1 ELSE Nth(colons, 1) + 1
      others == { i \in from..Len(line) : ~(isxdigit(line[i]) \/ isspace(line[i])) }
      to == IF others = {} THEN Len(line) ELSE Nth(others, 1) - 1
      IsDigit(i) == i \in from..to /\ isxdigit(line[i])
      GroupStart(i) == Nth({ j \in from..i : \A k \in j..i : IsDigit(k) }, 1)
      GroupEnd(i) == Nth({ j \in i..(to + 1) : ~IsDigit(j) }, 1) - 1
      starts == { i \in from..to : IsDigit(i) /\ (i - GroupStart(i)) % 8 = 0 }
      Last(i) == IF GroupEnd(i) < i + 7 THEN GroupEnd(i) ELSE i + 7
  IN  [n \in 1..Cardinality(starts) |->
         DigitsValue(SubSeq(line, Nth(starts, n), Last(Nth(starts, n))))]

\* The words of the lines of payload d from the n-th line on.
RECURSIVE HexdumpWords(_, _)
HexdumpWords(d, n) ==
  LET ends == { i \in 1..Len(d) : d[i] = LF }
  IN  IF n > Cardinality(ends) THEN << >>
      ELSE LineWords(SubSeq(d, IF n = 1 THEN 1 ELSE Nth(ends, n - 1) + 1,
                            Nth(ends, n) - 1))
           \o HexdumpWords(d, n + 1)

\* The words stored by the transfer, in order.
StoredWords == [i \in 1..Len(stores) |-> stores[i][2]]

\* C3: A TEXT-mode PUT that has taken its whole payload has stored the words
\* of its lines, each once and in input order, with or without labels.
C3_LineWords ==
  (phase = "sent" /\ ~req.binary) => StoredWords = HexdumpWords(req.data, 1)

\* The resource a device or /fpga file name opens: << its first address, its
\* size in bytes >>.
OpenedResource(fname0) ==
  IF HasPrefix(Bytes("/fpga."), fname0) THEN << FPGA_BASEADDR, ToInt(FPGA_NBYTES) >>
  ELSE LET fname == IF HasPrefix(Bytes("/dev/"), fname0) THEN Drop(fname0, 5) ELSE fname0
           p == strchr_dot(fname)
           dev == casper_find_dev(IF p # 0 THEN SubSeq(fname, 1, p - 1) ELSE fname)
       IN  << DevPtr(dev), ToInt(Catalog[dev].length) >>

\* Address a lies among the `size` bytes from address base.
InResource(a, base, size) ==
  ~U32Lt(a, base) /\ U32Lt(U32Sub(a, base), OfInt(size))

\* C5: Write containment.  After a successful PUT open every store of the
\* write codecs is at an address of the opened resource, and the remaining
\* field the open sets is the number of bytes from the cursor to the end of
\* the resource, which is not negative.
C5_WriteContainment ==
  (req.write /\ phase \in { "put", "sent", "err" }) =>
    \A R \in { OpenedResource(req.fname) } :
      /\ \A i \in 1..Len(stores) : InResource(stores[i][1], R[1], R[2])
      /\ (phase = "put" /\ pending = req.data) =>
           /\ state.nleft >= 0
           /\ OfInt(state.nleft) = U32Sub(U32Add(R[1], OfInt(R[2])), state.ptr)

\* ------------------------------------------------------------------------
\* Opens (SpecOpen)
\* ------------------------------------------------------------------------

\* OFF + LEN > words, the sum being the mathematical one.
SumExceeds(off, len, words) ==
  \/ U32Gt(off, U32(words))
  \/ U32Gt(len, U32(words))
  \/ ToInt(off) + ToInt(len) > words

\* C4: Device bounds on GET.  The open of NAME.OFF.LEN, LEN not zero, fails
\* when OFF + LEN exceeds the device's length in words and succeeds
\* otherwise, also when the 32-bit sum wraps.
C4_DeviceBounds ==
  \A d \in OpenDevs, o \in OpenOffs, l \in OpenLens :
    (phase # "idle" /\ ~req.write /\ req.fname = DevFileName(d, o, l)) =>
      (opened <=> ~SumExceeds(o, l, OpenedResource(Bytes(d))[2] \div 4))

\* C6: Read-only protection.  The open of a PUT for /cpu.*, /help, /listdev
\* or a device whose read-only flag is set fails; it leaves the registered
\* write callback and the FPGA memory as they were and makes no store.
C6_ReadOnlyProtection ==
  [][(phase = "idle" /\ phase' # "idle" /\ req'.write
        /\ req'.fname \in { Bytes(n) : n \in ReadOnlyNames })
       => (phase' = "fail" /\ ~opened' /\ write_f' = write_f /\ mem' = mem
             /\ stores' = << >>)]_vars

\* A PUT to the read-only device B has been refused while the write callback
\* of an earlier transfer is registered.
C6_Witness ==
  /\ phase = "fail" /\ req.write /\ req.fname = Bytes("B")
  /\ write_f = "write_fpga_words_binary"

\* ------------------------------------------------------------------------
\* Round trips (SpecRoundTrip, SpecTextBinary, SpecHexdump)
\* ------------------------------------------------------------------------

\* C7: Binary round trip.  After an OCTET-mode PUT of 4k bytes to a
\* word-aligned region has taken its whole payload, whatever its
\* fragmentation, an OCTET-mode GET of the region returns those bytes,
\* whatever its chunking.
C7_BinaryRoundTrip ==
  (Len(log) = 1 /\ log[1].req.write /\ log[1].phase = "sent"
     /\ ~req.write /\ phase = "eof") => out = log[1].req.data

\* An 8-byte payload has come back from a GET made in callbacks of 3 bytes.
C7_Witness ==
  /\ Len(log) = 1 /\ log[1].phase = "sent" /\ phase = "eof" /\ nreq = 3
  /\ out = << 222, 173, 190, 239, 1, 2, 3, 4 >>

\* The words of the data groups of hexdump text d; a last line without its
\* LF counts as a line.
TextWords(d) ==
  HexdumpWords(IF d # << >> /\ d[Len(d)] # LF THEN Append(d, LF) ELSE d, 1)

\* The big-endian words of bytes b.
BigEndianWords(b) ==
  [i \in 1..(Len(b) \div 4) |-> << b[4 * i - 3], b[4 * i - 2], b[4 * i - 1], b[4 * i] >>]

\* C8: Text/binary read equivalence.  The words of the data groups of the
\* whole output of a TEXT-mode GET of an FPGA region are the big-endian words
\* of the whole output of an OCTET-mode GET of the region, whatever the
\* chunking of either.
C8_TextBinaryEquivalence ==
  (Len(log) = 1 /\ ~log[1].req.binary /\ log[1].phase = "eof"
     /\ req.binary /\ phase = "eof")
  => /\ Len(out) % 4 = 0
     /\ TextWords(log[1].out) = BigEndianWords(out)

\* Hexdump text d is the whole dump of region g: one LF-terminated line for
\* every four words.
WholeDump(d, g) ==
  /\ d # << >>
  /\ d[Len(d)] = LF
  /\ Cardinality({ i \in 1..Len(d) : d[i] = LF }) = (g.words + 3) \div 4

\* The words of region g at power up, each with its address.
RegionStores(g) ==
  [i \in 1..g.words |->
     LET a == U32Add(FPGA_BASEADDR, U32(g.first + 4 * (i - 1)))
     IN  << a, InitialMem[a] >>]

\* C9: Hexdump round trip.  When the TEXT-mode GET of an FPGA region has
\* delivered the whole dump, a TEXT-mode PUT of that dump to the region's
\* offset is accepted whatever its fragmentation and stores the words of
\* the region, once each, at their addresses; a second TEXT-mode GET of the
\* region that delivers the whole dump delivers the bytes of the first.
C9_HexdumpRoundTrip ==
  \A g \in { h \in HexdumpRegions :
               /\ Len(log) >= 1
               /\ log[1].req.fname = Bytes(h.get)
               /\ WholeDump(log[1].out, h) } :
    /\ (Len(log) = 1 /\ req.write) =>
         /\ phase \notin { "fail", "err" }
         /\ phase = "sent" => stores = RegionStores(g) /\ mem = InitialMem
    /\ (Len(log) = 2 /\ phase = "eof" /\ WholeDump(out, g)) => out = log[1].out

\* The 65 bytes of the dump of device A have been written back, five words
\* stored, and read again.
C9_Witness ==
  /\ Len(log) = 2 /\ phase = "eof"
  /\ log[1].req.fname = Bytes("A") /\ Len(log[1].out) = 65
  /\ log[2].phase = "sent" /\ Len(log[2].stores) = 5
  /\ out = log[1].out

\* ------------------------------------------------------------------------
\* Consumer contract and write overflow (SpecPut)
\* ------------------------------------------------------------------------

\* C11: Consumer contract.  A write callback that is handed k bytes of the
\* payload returns k when it has taken them, and a negative value when it
\* aborts the transfer.
C11_ConsumerContract ==
  [][(phase = "put" /\ pending' # pending)
       => (ret' < 0 \/ ret' = Len(pending) - Len(pending'))]_vars

\* ------------------------------------------------------------------------
\* Hexdump labels (SpecLabel)
\* ------------------------------------------------------------------------

UpperHex == Bytes("0123456789ABCDEF")

\* n as 8 uppercase hex digits, a colon and a space.
LabelText(n) ==
  << UpperHex[((n \div 268435456) % 16) + 1], UpperHex[((n \div 16777216) % 16) + 1],
     UpperHex[((n \div 1048576) % 16) + 1], UpperHex[((n \div 65536) % 16) + 1],
     UpperHex[((n \div 4096) % 16) + 1], UpperHex[((n \div 256) % 16) + 1],
     UpperHex[((n \div 16) % 16) + 1], UpperHex[(n % 16) + 1], COLON, SPACE >>

\* The index in d of the first byte of line i (i = 0, 1, ...), and the
\* number of lines of d that have a first byte.
LineStart(d, i) ==
  IF i = 0 THEN 1 ELSE Nth({ k \in 1..Len(d) : d[k] = LF }, i) + 1
LinesBegun(d) ==
  Cardinality({ k \in 1..Len(d) : d[k] = LF /\ k < Len(d) }) + (IF d = << >> THEN 0 ELSE 1)

HexdumpReadFns == { "read_mem_bytes_ascii", "read_fpga_words_ascii" }

\* C12: Label invariance.  In the output of a TEXT-mode hexdump read, after
\* any callbacks of any sizes, line i (i = 0, 1, ...) begins with 16 * i as
\* 8 zero-padded uppercase hex digits, whatever the offset or address asked
\* for; of a line not yet delivered further, the bytes delivered are the
\* first bytes of that label.
C12_LabelInvariance ==
  (~req.write /\ read_f \in HexdumpReadFns /\ phase \in { "get", "eof" }) =>
    \A i \in 0..(LinesBegun(out) - 1) :
      \A s \in { LineStart(out, i) } :
        \A k \in 1..10 :
          s + k - 1 <= Len(out) => out[s + k - 1] = LabelText(16 * i)[k]

\* A read of the CPU space from address 2004 has ended after callbacks of 3
\* bytes: its second line has the label 00000010 and its third line is begun.
C12_Witness ==
  /\ phase = "eof" /\ req.fname = Bytes("/cpu.2005.21") /\ nreq = 3
  /\ LinesBegun(out) = 3
  /\ SubSeq(out, LineStart(out, 1), LineStart(out, 1) + 8) = Bytes("00000010:")
  /\ out[LineStart(out, 2)] = UpperHex[1]

\* ------------------------------------------------------------------------
\* The length field of /fpga (SpecGet)
\* ------------------------------------------------------------------------

\* C13: GET /fpga.0.4 in OCTET mode, against FPGA memory whose first 16 bytes
\* are 00 01 02 ... 0F, returns the 4 bytes 00 01 02 03: the length field of
\* /fpga counts bytes, in hex.  The 16 bytes 00 01 02 ... 0F are what GET
\* /fpga.0.10 returns.
C13_FpgaLenInBytes ==
  (phase = "eof" /\ ~req.write /\ req.binary) =>
    /\ req.fname = Bytes("/fpga.0.4") => out = << 0, 1, 2, 3 >>
    /\ req.fname = Bytes("/fpga.0.10") => out = [i \in 1..16 |-> i - 1]

\* GET /fpga.0.4 in OCTET mode has ended with 4 bytes, after callbacks of 3
\* bytes.
C13_Witness ==
  /\ phase = "eof" /\ req.fname = Bytes("/fpga.0.4") /\ req.binary
  /\ nreq = 3 /\ Len(out) = 4

\* C13 as stated: GET /fpga.0.4 in OCTET mode returns the 16 bytes
\* 00 01 02 ... 0F.
C13_SixteenBytes ==
  (phase = "eof" /\ ~req.write /\ req.binary /\ req.fname = Bytes("/fpga.0.4"))
    => out = [i \in 1..16 |-> i - 1]

\* ------------------------------------------------------------------------
\* The listing (SpecListing)
\* ------------------------------------------------------------------------

\* The 32-bit value w in uppercase hex without leading zeros; 0 is "0".
MinimalHex(w) ==
  LET digits == << UpperHex[(w[1] \div 16) + 1], UpperHex[(w[1] % 16) + 1],
                   UpperHex[(w[2] \div 16) + 1], UpperHex[(w[2] % 16) + 1],
                   UpperHex[(w[3] \div 16) + 1], UpperHex[(w[3] % 16) + 1],
                   UpperHex[(w[4] \div 16) + 1], UpperHex[(w[4] % 16) + 1] >>
      first == Nth({ k \in 1..8 : digits[k] # UpperHex[1] \/ k = 8 }, 1)
  IN  SubSeq(digits, first, 8)

\* The listing line of the entry with this name and these 9 payload bytes:
\* offset word, length (both big endian), type code.
ListingLine(name, payload) ==
  name \o << TAB >>
  \o (IF payload[4] % 2 = 1 THEN Bytes("1") ELSE Bytes("3")) \o << TAB >>
  \o MinimalHex(<< payload[1], payload[2], payload[3], payload[4] - (payload[4] % 4) >>)
  \o << TAB >>
  \o MinimalHex(<< payload[5], payload[6], payload[7], payload[8] >>) \o << TAB >>
  \o MinimalHex(<< 0, 0, 0, payload[9] >>) \o << LF >>

\* The listing lines of the catalog entries from the i-th on.
RECURSIVE ListingFrom(_)
ListingFrom(i) ==
  IF i > Len(Catalog) THEN << >>
  ELSE ListingLine(Catalog[i].name, CslPayload(Catalog[i])) \o ListingFrom(i + 1)

\* C14: Listing format.  A TEXT-mode GET of /listdev that has ended has
\* produced, whatever its chunking, one line per catalog entry in catalog
\* order and nothing else; the line of an entry is NAME TAB MODE TAB OFFSET
\* TAB LENGTH TAB TYPE LF, MODE being 1 when the low bit of the offset word
\* is set and 3 otherwise, OFFSET the offset word with its two low bits
\* cleared, and the three numbers in uppercase hex without leading zeros.
C14_ListingFormat ==
  /\ phase = "line" => out = ListingLine(req.fname, req.data)
  /\ (phase = "eof" /\ req.fname = Bytes("/listdev") /\ ~req.binary)
       => out = ListingFrom(1)

\* The listing of the catalog has been delivered in callbacks of 3 bytes.
C14_Witness ==
  /\ phase = "eof" /\ req.fname = Bytes("/listdev") /\ nreq = 3
  /\ out = Bytes("A\t3\t0\t14\t5\nB\t1\t14\t8\t6\n")

\* ------------------------------------------------------------------------
\* Resolution errors (SpecResolve)
\* ------------------------------------------------------------------------

\* The parts of a device, /fpga or /cpu file name: << the device name (empty
\* for /fpga and /cpu), whether fields follow, the text of the fields >>.
NameParts(fname0) ==
  IF HasPrefix(Bytes("/fpga."), fname0) THEN << << >>, TRUE, Drop(fname0, 6) >>
  ELSE IF HasPrefix(Bytes("/cpu."), fname0) THEN << << >>, TRUE, Drop(fname0, 5) >>
  ELSE LET fname == IF HasPrefix(Bytes("/dev/"), fname0) THEN Drop(fname0, 5) ELSE fname0
           p == strchr_dot(fname)
       IN  IF p = 0 THEN << fname, FALSE, << >> >>
           ELSE << SubSeq(fname, 1, p - 1), TRUE, Drop(fname, p) >>

IsDeviceName(fname0) ==
  ~HasPrefix(Bytes("/fpga."), fname0) /\ ~HasPrefix(Bytes("/cpu."), fname0)

\* f is OFF or OFF.LEN, each a number of 1 to 8 hex digits.
WellFormedFields(f) ==
  \E a \in 1..8 :
    /\ a <= Len(f)
    /\ \A k \in 1..a : isxdigit(f[k])
    /\ \/ Len(f) = a
       \/ /\ Len(f) > a + 1
          /\ f[a + 1] = DOT
          /\ Len(f) - (a + 1) <= 8
          /\ \A k \in (a + 2)..Len(f) : isxdigit(f[k])

UnknownDevice(fname0) ==
  IsDeviceName(fname0) /\ casper_find_dev(NameParts(fname0)[1]) = 0
Malformed(fname0) ==
  NameParts(fname0)[2] /\ ~WellFormedFields(NameParts(fname0)[3])

\* C15: Resolution errors.  The open of a request whose device name is not
\* in the catalog, or whose OFF or LEN field is malformed, returns null.
C15_ResolutionErrors ==
  (phase # "idle" /\ (UnknownDevice(req.fname) \/ Malformed(req.fname)))
    => ~opened /\ phase = "fail"

\* ------------------------------------------------------------------------
\* Write overflow and partial words (SpecOverflow)
\* ------------------------------------------------------------------------

\* The address of word i (i = 1, 2, ...) of target t.
TargetAddr(t, i) == U32Add(FPGA_BASEADDR, U32(t.first + 4 * (i - 1)))

\* The number of payload bytes the write callbacks have been handed.
Handed == Len(req.data) - Len(pending)

\* C16: Write overflow.  In a PUT whose open set an upper bound of N bytes,
\* the stores are to the first N/4 words from the cursor, in order, and stay
\* in memory.  In OCTET mode the callback that is handed byte N + 1 returns
\* a negative value, and no other does; in TEXT mode a payload of more than
\* N/4 words does not end without a negative return.  At a negative return
\* exactly N/4 words have been stored.
C16_WriteOverflow ==
  \A t \in { b \in BoundedTargets : Bytes(b.name) = req.fname } :
    (req.write /\ phase \in { "put", "sent", "err" }) =>
      /\ Len(stores) <= t.bound \div 4
      /\ \A i \in 1..Len(stores) :
           /\ stores[i][1] = TargetAddr(t, i)
           /\ mem[stores[i][1]] = stores[i][2]
      /\ phase = "err" => ret < 0 /\ Len(stores) = t.bound \div 4
      /\ req.binary => (phase = "err" <=> Handed > t.bound)
      /\ req.binary =>
           \A i \in 1..Len(stores) : stores[i][2] = BigEndianWords(req.data)[i]
      /\ (~req.binary /\ phase = "sent") =>
           Len(HexdumpWords(req.data, 1)) <= t.bound \div 4


\* The addresses stored to since power up: by the transfers closed and by
\* the current one.
RECURSIVE StoredAddrs(_)
StoredAddrs(i) ==
  IF i > Len(log) THEN { stores[n][1] : n \in 1..Len(stores) }
  ELSE { log[i].stores[n][1] : n \in 1..Len(log[i].stores) } \cup StoredAddrs(i + 1)

\* C17: Partial trailing word on OCTET PUT.  While an OCTET-mode PUT of a
\* payload that fits the bound is under way or has ended, under any
\* fragmentation, no callback has returned an error, the stores are the whole
\* big-endian words of the bytes handed over so far, at cursor, cursor + 4,
\* ..., in order (q words for a payload of 4q + r bytes), and memory is
\* untouched everywhere else: the trailing r bytes are not stored.
C17_PartialTrailingWord ==
  \A t \in { b \in BoundedTargets : Bytes(b.name) = req.fname } :
    (req.write /\ req.binary /\ Len(req.data) <= t.bound
       /\ phase \in { "put", "sent", "err" }) =>
      /\ phase # "err" /\ ret >= 0
      /\ Len(stores) = Handed \div 4
      /\ \A i \in 1..Len(stores) :
           stores[i] = << TargetAddr(t, i), BigEndianWords(req.data)[i] >>
      /\ \A a \in FpgaAddrs \ StoredAddrs(1) : mem[a] = InitialMem[a]

\* The 7-byte payload has been sent whole to device A after an earlier
\* transfer that also ended inside a word: only its first word is stored,
\* and its last three bytes are in the callback's static word.
C17_Witness ==
  /\ phase = "sent" /\ Len(log) = 1 /\ req.fname = Bytes("A.1")
  /\ req.data = << 9, 8, 7, 6, 5, 4, 3 >>
  /\ stores = << << TargetAddr([first |-> 4], 1), << 9, 8, 7, 6 >> >> >>
  /\ word_wb = << 6, 5, 4, 3 >>


\* ------------------------------------------------------------------------
\* The remaining count and the cursor (SpecBounds)
\* ------------------------------------------------------------------------

\* C18: In every state of a transfer, after a successful open and after any
\* read or write callbacks, remaining is at least -1.
C18_RemainingFloor ==
  (opened /\ phase \in { "get", "put", "eof", "sent", "err" }) => state.nleft >= -1


\* The resource a GET of fname reads, as << start address, size in bytes >>:
\* the help message, the core_info blob with its length word (the binary
\* listing), the FPGA window, or the memory of a device.
Resource(fname) ==
  IF HasPrefix(Bytes("/help"), fname) THEN << HELP_MSG_ADDR, Len(tapcp_help_msg) >>
  ELSE IF HasPrefix(Bytes("/listdev"), fname)
  THEN << U32Sub(CORE_INFO, U32(2)), core_info_size + 2 >>
  ELSE IF HasPrefix(Bytes("/fpga."), fname) THEN << FPGA_BASEADDR, Lo16(FPGA_NBYTES) >>
  ELSE LET i == casper_find_dev(NameParts(fname)[1])
       IN  << DevPtr(i), Lo16(Catalog[i].length) >>

\* The GETs of a bounded resource: not /cpu, and not the text listing, which
\* is produced entry by entry.
Bounded(r) ==
  /\ ~r.write
  /\ ~HasPrefix(Bytes("/cpu."), r.fname)
  /\ HasPrefix(Bytes("/listdev"), r.fname) => r.binary

\* cursor is not below the start of resource res, and cursor + remaining is
\* not above its end.
Within(res) ==
  LET d == U32Sub(state.ptr, res[1])
  IN  /\ ~U32Gt(d, U32(res[2]))
      /\ Lo16(d) + state.nleft <= res[2]

\* C19: In every state between the callbacks of a GET of a bounded resource
\* (the help banner, the binary listing, a device, /fpga), whatever the chunk
\* sizes, cursor + remaining does not exceed the end address of the resource
\* and cursor is not below its start.
C19_CursorWithinResource ==
  (opened /\ phase \in { "get", "eof" } /\ Bounded(req)) => Within(Resource(req.fname))


\* C20: Device GET with LEN zero or absent.  The open fails for every OFF at
\* or above the device's length in words; when OFF is below it the open
\* succeeds, and remaining is then (device_word_length - OFF) * 4, above 0.
C20_LenAbsent ==
  \A t \in { b \in LenAbsentGets : Bytes(b.name) = req.fname } :
    (~req.write /\ phase # "idle") =>
      LET device_word_length == U32Shr2(Catalog[t.dev].length)
      IN  IF U32Lt(t.off, device_word_length)
          THEN /\ opened
               /\ (phase = "get" /\ nreq = 0) =>
                    /\ state.nleft = (Lo16(device_word_length) - Lo16(t.off)) * 4
                    /\ state.nleft > 0
          ELSE ~opened /\ phase = "fail"


\* ------------------------------------------------------------------------
\* The line buffer (SpecLineBuf)
\* ------------------------------------------------------------------------

\* C21: Line-buffer safety.  In every state of any transfer no load from or
\* store to line_buf has been made at an index at or above its capacity,
\* line_index does not exceed the capacity, and a TEXT write whose line does
\* not fit before an LF has ended with a negative return once the callbacks
\* have been handed more characters than line_buf holds.
C21_LineBufferSafety ==
  /\ ~oob
  /\ state.lidx <= LineBufSize
  /\ (req.write /\ phase \in { "put", "sent", "err" }
        /\ Len(req.data) > LineBufSize /\ Handed > LineBufSize
        /\ SubSeq(req.data, 1, LineBufSize + 1) = LongLine)
       => (phase = "err" /\ ret < 0)


\* ------------------------------------------------------------------------
\* Labels of TEXT-mode PUT (SpecColon)
\* ------------------------------------------------------------------------

\* C22: Per-line label handling in TEXT PUT.  Whenever the callbacks have
\* been handed the input up to the end of a line (or nothing yet), the
\* colon-seen flag is 0; and a PUT that has taken its whole payload has stored,
\* for every line, the hex groups after the line's first colon, whatever the
\* lines before it were.
C22_PerLineLabel ==
  (req.write /\ ~req.binary /\ phase \in { "put", "sent" }) =>
    /\ (Handed = 0 \/ req.data[Handed] = LF) => state.u32 = U32Zero
    /\ phase = "sent" => StoredWords = HexdumpWords(req.data, 1)


\* ------------------------------------------------------------------------
\* The partial final line of a hexdump (SpecLabel)
\* ------------------------------------------------------------------------

\* C23: Partial final hexdump line.  In the output of both text read codecs
\* every LF comes immediately after a hex digit, the last one of the data
\* read: no space stands between the data of a line and its LF, also when
\* remaining reaches 0 before the line holds 16 bytes or 4 words.
C23_PartialFinalLine ==
  (~req.write /\ phase \in { "get", "eof" } /\ read_f \in HexdumpReadFns) =>
    \A i \in 1..Len(out) : out[i] = LF => (i > 1 /\ isxdigit(out[i - 1]))


\* ------------------------------------------------------------------------
\* The loads of an FPGA read (SpecGet)
\* ------------------------------------------------------------------------

\* C24: Exactly-once loads.  In a GET served by an FPGA codec, OCTET or TEXT,
\* that the open left with the cursor at cursor0 and remaining = 4m, the
\* 32-bit loads made so far, under any chunking, are at cursor0, cursor0 + 4,
\* ... in ascending order, each address once and none beyond
\* cursor0 + 4(m - 1); when the transfer has ended there have been exactly m.
C24_ExactlyOnceLoads ==
  (~req.write /\ opened /\ phase \in { "get", "eof" }
     /\ read_f \in { "read_fpga_words_binary", "read_fpga_words_ascii" }) =>
    \A s0 \in { casper_tapcp_open(Machine0(le), req.fname, req.binary, FALSE).state } :
      (s0.nleft >= 0 /\ s0.nleft % 4 = 0) =>
        /\ Len(loads) <= s0.nleft \div 4
        /\ \A i \in 1..Len(loads) : loads[i] = U32Add(s0.ptr, U32(4 * (i - 1)))
        /\ phase = "eof" => Len(loads) = s0.nleft \div 4

\* An OCTET-mode GET of the five words of device A has ended after callbacks
\* of 3 bytes, which end inside words, with five loads.
C24_Witness ==
  /\ phase = "eof" /\ req.fname = Bytes("A") /\ req.binary /\ nreq = 3
  /\ Len(out) = 20 /\ Len(loads) = 5


\* ------------------------------------------------------------------------
\* Word alignment (SpecAlign)
\* ------------------------------------------------------------------------

\* C25: Word alignment.  With the FPGA base and the device bases 4-byte
\* aligned, in every state of a device or /fpga transfer served by the FPGA
\* codecs the cursor is 4-byte aligned and every 32-bit load and store made
\* is at a 4-byte aligned address; and right after the open, whatever OFF and
\* LEN, remaining is a multiple of 4 unless it is negative.
C25_WordAlignment ==
  (opened /\ phase \in { "get", "put", "eof", "sent", "err" }
     /\ (req.write \/ read_f \in { "read_fpga_words_binary", "read_fpga_words_ascii" })) =>
    /\ U32And3(state.ptr) = 0
    /\ \A i \in 1..Len(loads) : U32And3(loads[i]) = 0
    /\ \A i \in 1..Len(stores) : U32And3(stores[i][1]) = 0
    /\ ((IF req.write THEN pending = req.data ELSE nreq = 0) /\ state.nleft >= 0)
         => state.nleft % 4 = 0

\* GET /fpga.5.3, whose offset and length are not multiples of 4, has ended
\* after one load, of the word at offset 4 of the window.
C25_Witness ==
  /\ phase = "eof" /\ req.fname = Bytes("/fpga.5.3")
  /\ loads = << U32Add(FPGA_BASEADDR, U32(4)) >> /\ state.ptr = U32Add(FPGA_BASEADDR, U32(8))


\* ---------------------------------------------------------------------------
\* Serialized transfers.  The engine runs one transfer at a time and may give
\* a transfer up after any callback; the next open then finds the static
\* line buffer, the catalog iterator and the static words as that transfer
\* left them.  Beside the program runs a reference: the same request, opened
\* on the power-up values of the statics with the memory as it is at the open
\* and given the same callbacks.  The reference is kept in log[1].

\* The reference of the current transfer.
Reference == log[1]

\* The callback's chain of the next k bytes of the payload, in one fragment
\* (j = 0) or in two.
Chain(k, j) ==
  IF j = 0 THEN << SubSeq(pending, 1, k) >>
  ELSE << SubSeq(pending, 1, j), SubSeq(pending, j + 1, k) >>

\* The engine opens the next transfer of the script, whether the one before
\* is finished or not.
OpenNext ==
  /\ script # << >>
  /\ \E r \in { Head(script) } :
       \E M \in { casper_tapcp_open([Cur EXCEPT !.loads = << >>, !.stores = << >>],
                                    r.fname, r.binary, r.write) },
          R \in { casper_tapcp_open([Machine0(le) EXCEPT !.mem = mem],
                                    r.fname, r.binary, r.write) } :
         /\ Becomes(M)
         /\ req' = r
         /\ phase' = IF ~M.opened THEN "fail" ELSE IF r.write THEN "put" ELSE "get"
         /\ pending' = IF ~M.opened \/ ~r.write THEN << >> ELSE r.data
         /\ log' = << [m |-> R, out |-> << >>, ret |-> 0] >>
  /\ script' = Tail(script)
  /\ out' = << >>
  /\ ret' = 0
  /\ nreq' = 0
  /\ UNCHANGED le

\* The read callback for n bytes, of the program and of the reference.
ReadBoth(n) ==
  /\ phase = "get"
  /\ \E M \in { CallRead(Cur, read_f, n) },
        R \in { CallRead([Reference.m EXCEPT !.buf = << >>, !.ret = 0],
                         Reference.m.read_f, n) } :
         /\ Becomes(M)
         /\ out' = out \o M.buf
         /\ ret' = M.ret
         /\ phase' = IF M.ret < n THEN "eof" ELSE "get"
         /\ log' = << [m |-> R, out |-> Reference.out \o R.buf, ret |-> R.ret] >>
  /\ nreq' = n
  /\ UNCHANGED << le, script, req, pending >>

\* The write callback with the next k bytes, of the program and of the
\* reference.
WriteBoth(k, j) ==
  /\ phase = "put"
  /\ pending # << >>
  /\ k \in 1..Len(pending)
  /\ j \in 0..(k - 1)
  /\ \E M \in { CallWrite(Cur, write_f, Chain(k, j)) },
        R \in { CallWrite([Reference.m EXCEPT !.buf = << >>, !.ret = 0],
                          Reference.m.write_f, Chain(k, j)) } :
         /\ Becomes(M)
         /\ ret' = M.ret
         /\ pending' = SubSeq(pending, k + 1, Len(pending))
         /\ phase' = IF M.ret < 0 THEN "err"
                     ELSE IF k = Len(pending) THEN "sent" ELSE "put"
         /\ log' = << [m |-> R, out |-> Reference.out, ret |-> R.ret] >>
  /\ UNCHANGED << le, script, req, out, nreq >>

\* The transfers that come first: they leave a line, a label flag, a partly
\* filled word, a catalog position behind.
EarlierRequests ==
  { Put("A", FALSE, Bytes("DEADBEEF CAFEBABE\n1234")),
    Put("A", FALSE, Bytes("lbl: 99")),
    Put("A", TRUE, << 9, 8, 7, 6, 5, 4, 3 >>),
    Get("/listdev", FALSE),
    Get("A", TRUE),
    Get("/fpga.0.10", FALSE),
    Get("/cpu.2005.6", FALSE) }
\* The transfers that come after them.
LaterRequests ==
  { Get("/help", FALSE), Get("/listdev", FALSE), Get("/listdev", TRUE),
    Get("A", FALSE), Get("A", TRUE), Get("/cpu.2005.6", FALSE),
    Get("/cpu.2005.6", TRUE),
    Put("A", FALSE, Bytes("cafe01\n2 3\n")),
    Put("A", FALSE, Bytes("x: 6 zz 7\n")),
    Put("A.1", TRUE, << 1, 2, 3, 4, 5 >>) }
EarlierChunks == { 3, TFTP_BLOCK }
LaterChunks == { 2, MaxChunk, TFTP_BLOCK }
LaterPkts == { 2, MaxPkt }

InitSerial ==
  InitWith({ << TRUE, << e, l >> >> : e \in EarlierRequests, l \in LaterRequests })
NextSerial ==
  \/ OpenNext
  \/ \E n \in (IF script = << >> THEN LaterChunks ELSE EarlierChunks) : ReadBoth(n)
  \/ \E k \in (IF script = << >> THEN LaterPkts ELSE { MaxPkt }) \cup { Len(pending) },
        j \in 0..1 : WriteBoth(k, j)
SpecSerial == InitSerial /\ [][NextSerial]_vars

\* The statics of the program differ from those of the reference.
StaticsDiffer ==
  \/ line_buf # Reference.m.line_buf
  \/ csl_iter # Reference.m.csl_iter
  \/ word_rb # Reference.m.word_rb
  \/ word_wb # Reference.m.word_wb
  \/ word_wa # Reference.m.word_wa

\* C26: serialized-transfer isolation.  With transfers one at a time, each
\* given up after any callback or finished, the bytes a GET has produced, the
\* value its callback returned, the stores a PUT has made and the memory are
\* at every moment those of the same request run with the same callbacks on
\* the power-up values of the line buffer, the catalog iterator and the
\* static words.
C26_SerialIsolation ==
  log # << >> =>
    /\ out = Reference.out
    /\ ret = Reference.ret
    /\ stores = Reference.m.stores
    /\ mem = Reference.m.mem
    /\ opened = Reference.m.opened
C26_Witness ==
  /\ log # << >>
  /\ script = << >>
  /\ phase \in { "eof", "sent" }
  /\ StaticsDiffer
  /\ out # << >> \/ stores # << >>


\* ---------------------------------------------------------------------------
\* The end of a GET (SpecBounds).  The engine calls the read callback again
\* as long as the last call filled the buffer it was given: the read
\* callback is weakly fair.  It is enabled exactly when a GET is open
\* (phase = "get"), which is written out in place of ENABLED.
ReadAgain == \E n \in BoundsChunks : ReadCallback(n)
ReadAgainFair == []<>(phase # "get") \/ []<><<ReadAgain>>_vars
SpecBoundsFair == SpecBounds /\ ReadAgainFair

\* A GET that is open comes to a callback that returns fewer bytes than it
\* was asked for.
ReadTerminates == (phase = "get") ~> (phase = "eof" /\ ret < nreq)

\* The same without fairness: a callback that does not end the transfer has
\* filled its buffer, of one byte at least.
ReadProgress ==
  [][phase = "get" /\ phase' = "get" => ret' = nreq' /\ Len(out') = Len(out) + nreq']_vars

\* The read functions that count bytes: the help message, the binary listing
\* and the bytes of a device (both read_mem_bytes_binary), the FPGA words.
ByteCounted == { "read_help", "read_mem_bytes_binary", "read_fpga_words_binary" }

\* remaining as the open of the current transfer set it.
RemainingAtOpen ==
  casper_tapcp_open(Machine0(le), req.fname, req.binary, FALSE).state.nleft

\* C27: read termination.  A GET that opened, its callbacks asked for any
\* numbers of bytes n >= 1, ends with a callback that returns fewer bytes
\* than it was asked for, and for the help message, the binary listing, the
\* bytes of a device and the FPGA words in BINARY mode the bytes produced up
\* to that callback are as many as remaining was at the open.
C27_ReadTermination ==
  phase = "eof" =>
    /\ ret < nreq
    /\ read_f \in ByteCounted => Len(out) = RemainingAtOpen

=============================================================================
